---- MODULE Spec2Model ----
(***************************************************************************)
(* Stoik: chemical-formula tokenizer, infix-to-postfix converter, postfix  *)
(* evaluator and the Molecule multiset they operate on.                    *)
(*                                                                         *)
(* A formula string is a sequence of one-character strings.  An atom       *)
(* symbol is a sequence of one or two characters.  A Molecule value is the *)
(* set of its <<symbol, frequency>> entries (one entry per symbol); Map    *)
(* insertion order is not represented.  Molecule objects live in a heap    *)
(* (a sequence of Molecule values) and are referred to by their index, so  *)
(* that in-place mutation and sharing of objects are visible.              *)
(***************************************************************************)
EXTENDS Integers, Sequences, FiniteSets, TLC

\* ------------------------------------------------------------------------
\* Characters
\* ------------------------------------------------------------------------

\* /[0-9]/
Digit == {"0", "1", "2", "3", "4", "5", "6", "7", "8", "9"}

\* /[A-Z]/
Upper == {"A", "B", "C", "D", "E", "F", "G", "H", "I", "J", "K", "L", "M",
          "N", "O", "P", "Q", "R", "S", "T", "U", "V", "W", "X", "Y", "Z"}

\* a test for a lowercase letter that never passes
Lower_None == {}

\* /[a-z]/
Lower == {"a", "b", "c", "d", "e", "f", "g", "h", "i", "j", "k", "l", "m",
          "n", "o", "p", "q", "r", "s", "t", "u", "v", "w", "x", "y", "z"}

\* a white-space test that also takes the characters of no class
Space_AndUnknown == {" ", "\t", "\n", "a", "?"}

\* a white-space test that never passes
Space_None == {}

\* /\s/ (the white-space characters the model uses)
Space == {" ", "\t", "\n"}

\* the value of one decimal digit
DigitVal(c) ==
    CASE c = "0" -> 0 [] c = "1" -> 1 [] c = "2" -> 2 [] c = "3" -> 3
      [] c = "4" -> 4 [] c = "5" -> 5 [] c = "6" -> 6 [] c = "7" -> 7
      [] c = "8" -> 8 [] c = "9" -> 9

\* +number.join(""): the decimal value of a sequence of digits
RECURSIVE DecimalValue(_)
DecimalValue(ds) ==
    IF ds = <<>> THEN 0
    ELSE 10 * DecimalValue(SubSeq(ds, 1, Len(ds) - 1)) + DigitVal(ds[Len(ds)])

\* the strings of at most n characters of chars
RECURSIVE StringsUpTo(_, _)
StringsUpTo(chars, n) ==
    IF n = 0 THEN {<<>>}
    ELSE LET shorter == StringsUpTo(chars, n - 1)
         IN  shorter \cup {Append(k, c) : k \in shorter, c \in chars}

\* ------------------------------------------------------------------------
\* Molecule (a Map from atom symbol to frequency)
\* ------------------------------------------------------------------------

EmptyMolecule == {}

\* Map.prototype.has
MapHas(m, key) == \E e \in m : e[1] = key

\* Map.prototype.get, for a key the map has
MapGet(m, key) == (CHOOSE e \in m : e[1] = key)[2]

\* Map.prototype.delete
MapDelete(m, key) == {e \in m : e[1] # key}

\* Map.prototype.set (super.set)
MapSet(m, key, value) == MapDelete(m, key) \cup {<<key, value>>}

\* the keys of a map
MapKeys(m) == {e[1] : e \in m}

\* lhs.get(atom) || 0
GetOrZero(m, key) == IF MapHas(m, key) THEN MapGet(m, key) ELSE 0

\* ATOM_LITERAL_TEST.test(key): the pattern /[A-Z][a-z]?/ is not anchored, so it
\* matches every string that holds an uppercase letter somewhere
ATOM_LITERAL_TEST(key) == \E i \in 1..Len(key) : key[i] \in Upper

\* The result of a Molecule operation: the value of the receiver afterwards,
\* or an error thrown (the receiver then keeps the value it had at the throw).
Done(m) == [err |-> FALSE, m |-> m]
Thrown(m) == [err |-> TRUE, m |-> m]

\* Molecule.prototype.set
MoleculeSet(m, key, value) ==
    IF ~ATOM_LITERAL_TEST(key) THEN Thrown(m)
    ELSE Done(MapSet(m, key, value))

\* an atom branch that never deletes
AddOrSubtractAtom_NoDelete(lhs, subtract, rhs, rhsFreq) ==
    IF rhsFreq # 0
    THEN MoleculeSet(lhs, rhs,
                     IF ~subtract THEN GetOrZero(lhs, rhs) + rhsFreq
                     ELSE GetOrZero(lhs, rhs) - rhsFreq)
    ELSE Done(lhs)

\* addOrSubtractStatic, atom branch: (lhs, subtract, atom, rhsFreq)
AddOrSubtractAtom(lhs, subtract, rhs, rhsFreq) ==
    IF rhsFreq # 0
    THEN LET lhsFreq == GetOrZero(lhs, rhs)
         IN  IF subtract /\ lhsFreq = rhsFreq
             THEN Done(MapDelete(lhs, rhs))
             ELSE MoleculeSet(lhs, rhs,
                              IF ~subtract THEN lhsFreq + rhsFreq
                              ELSE lhsFreq - rhsFreq)
    ELSE Done(lhs)

\* a callback that never deletes
ForEachBody_NoDelete(lhs, subtract, atom, rhsFreq) ==
    MoleculeSet(lhs, atom,
                IF ~subtract THEN GetOrZero(lhs, atom) + rhsFreq
                ELSE GetOrZero(lhs, atom) - rhsFreq)

\* one call of the callback of rhs.forEach in addOrSubtractStatic
ForEachBody(lhs, subtract, atom, rhsFreq) ==
    LET leftFreq == GetOrZero(lhs, atom)
    IN  IF (subtract /\ leftFreq - rhsFreq = 0) \/ leftFreq + rhsFreq = 0
        THEN Done(MapDelete(lhs, atom))
        ELSE MoleculeSet(lhs, atom,
                         IF ~subtract THEN leftFreq + rhsFreq
                         ELSE leftFreq - rhsFreq)

\* addOrSubtractStatic, molecule branch: rhs.forEach over the entries of rhs;
\* an error thrown by the callback ends the iteration
RECURSIVE AddOrSubtractMolecule(_, _, _)
AddOrSubtractMolecule(lhs, subtract, rhs) ==
    IF rhs = {} THEN Done(lhs)
    ELSE LET e == CHOOSE x \in rhs : TRUE
             r == ForEachBody(lhs, subtract, e[1], e[2])
         IN  IF r.err THEN r
             ELSE AddOrSubtractMolecule(r.m, subtract, rhs \ {e})

\* a multiplyStatic that adds the multiplier to every frequency
MultiplyStatic_Adds(m, multiplier) == {<<e[1], multiplier + e[2]>> : e \in m}

\* multiplyStatic: molecule.set(atom, multiplier * freq) for every entry.  The
\* keys are keys of the molecule already, so set's test of the key passes.
MultiplyStatic(m, multiplier) == {<<e[1], multiplier * e[2]>> : e \in m}

\* ------------------------------------------------------------------------
\* Tokens
\* ------------------------------------------------------------------------

\* enum TokenType
TokenType == {"GroupLeft", "GroupRight", "Number", "Add", "Subtract", "Atom",
              "Coefficient", "Subscript", "Join"}

\* An element of a token sequence: a token [type, payload], or a Molecule
\* object (type "Molecule", ref its index in the heap).
Tok(t) == [type |-> t, atom |-> <<>>, num |-> 0, ref |-> 0]
NumberToken(n) == [type |-> "Number", atom |-> <<>>, num |-> n, ref |-> 0]
AtomToken(a) == [type |-> "Atom", atom |-> a, num |-> 0, ref |-> 0]
MoleculeRef(r) == [type |-> "Molecule", atom |-> <<>>, num |-> 0, ref |-> r]

\* ------------------------------------------------------------------------
\* tokenize
\* ------------------------------------------------------------------------

\* tokens[idx] of equation.split(""), idx counted from 0; "" stands for
\* undefined (idx beyond the end)
CharAt(s, idx) == IF idx + 1 <= Len(s) THEN s[idx + 1] ELSE ""

\* result.peekBack()'s type; "" stands for undefined (no token yet)
LastType(result) == IF result = <<>> THEN "" ELSE result[Len(result)].type

\* a digit run of one digit
DigitRunEnd_OneDigit(s, idx) == idx

\* while ((token = tokens[++idx]) && /[0-9]/.test(token)): the index of the
\* first character at or after idx that is not a digit
RECURSIVE DigitRunEnd(_, _)
DigitRunEnd(s, idx) ==
    IF CharAt(s, idx) \in Digit THEN DigitRunEnd(s, idx + 1) ELSE idx

\* the MalformedFormulaError thrown by tokenize
Malformed(msg, prev, idx) ==
    [err |-> TRUE, kind |-> "MalformedFormulaError", msg |-> msg, prev |-> prev,
     index |-> idx, tokens |-> <<>>]

\* a digit run that is a coefficient wherever it stands
NumberPush_Coefficient(last, value) == <<NumberToken(value), Tok("Coefficient")>>

\* a digit run that pushes its operator on the other side of the number
NumberPush_OtherSide(last, value) ==
    IF last \in {"", "GroupLeft", "Join", "Subtract"}
    THEN <<Tok("Coefficient"), NumberToken(value)>>
    ELSE <<NumberToken(value), Tok("Subscript")>>

\* the tokens a digit run pushes, by the type of the last token
NumberPush(last, value) ==
    IF last = "Number"
    THEN <<Tok("Subscript"), NumberToken(value)>>
    ELSE IF last \in {"", "GroupLeft", "Join", "Subtract"}
    THEN <<NumberToken(value), Tok("Coefficient")>>
    ELSE <<Tok("Subscript"), NumberToken(value)>>

\* a digit-run branch with no else
NumberAccepts_Any(last) == TRUE

\* the digit-run branch accepts the last token's type
NumberAccepts(last) ==
    last \in {"Number", "", "GroupLeft", "Join", "Subtract", "Atom", "GroupRight"}

\* an implicit Add after an atom only
ImplicitAdd_AfterAtom(last) == last = "Atom"

\* an atom or a left parenthesis is preceded by an implicit Add
ImplicitAdd(last) == last \in {"Number", "Atom", "GroupRight"}

\* a right bracket test that never finds the count at zero
UnmatchedRight_Never(parens) == FALSE

\* if (parens === 0) at a right bracket
UnmatchedRight(parens) == parens = 0

\* tokenize has scanned the input without error
Tokenized(result) ==
    [err |-> FALSE, kind |-> "", msg |-> "", prev |-> "", index |-> 0,
     tokens |-> result]

\* the loop of tokenize goes on from index idx
Scanning(idx, parens, result) ==
    [err |-> FALSE, thrown |-> Tokenized(<<>>), idx |-> idx, parens |-> parens,
     result |-> result]

\* the loop of tokenize ends with an error
ScanThrown(error, idx, parens, result) ==
    [err |-> TRUE, thrown |-> error, idx |-> idx, parens |-> parens,
     result |-> result]

\* one turn of the while loop of tokenize, for the character at index idx
TokenizeStep(s, idx, parens, result) ==
    LET token == CharAt(s, idx)
        last == LastType(result)
        add == IF ImplicitAdd(last) THEN <<Tok("Add")>> ELSE <<>>
    IN  IF token \in Digit
        THEN LET end == DigitRunEnd(s, idx + 1)
                 value == DecimalValue(SubSeq(s, idx + 1, end))
             IN  IF NumberAccepts(last)
                 THEN Scanning(end, parens, result \o NumberPush(last, value))
                 ELSE ScanThrown(Malformed("Unexpected number after", last, end),
                                 end, parens, result)
        ELSE IF token \in Upper
        THEN IF CharAt(s, idx + 1) \in Lower
             THEN Scanning(idx + 2, parens,
                      result \o add \o <<AtomToken(<<token, CharAt(s, idx + 1)>>)>>)
             ELSE Scanning(idx + 1, parens,
                      result \o add \o <<AtomToken(<<token>>)>>)
        ELSE IF token = "("
        THEN Scanning(idx + 1, parens + 1, result \o add \o <<Tok("GroupLeft")>>)
        ELSE IF token = ")"
        THEN IF UnmatchedRight(parens)
             THEN ScanThrown(Malformed("Unmatched right bracket", "", idx),
                             idx, parens, result)
             ELSE Scanning(idx + 1, parens - 1, Append(result, Tok("GroupRight")))
        ELSE IF token = "+"
        THEN Scanning(idx + 1, parens, Append(result, Tok("Join")))
        ELSE IF token = "-"
        THEN Scanning(idx + 1, parens, Append(result, Tok("Subtract")))
        ELSE IF token \in Space
        THEN Scanning(idx + 1, parens, result)
        ELSE ScanThrown(Malformed("Unexpected token", "", idx), idx, parens, result)

\* an end of tokenize without the final check
TokenizeEnd_NoCheck(idx, parens, result) == Tokenized(result)

\* the end of tokenize, the loop having stopped at index idx
TokenizeEnd(idx, parens, result) ==
    IF parens # 0 THEN Malformed("Unmatched left bracket", "", idx)
    ELSE Tokenized(result)

\* the while loop of tokenize from index idx on
RECURSIVE TokenizeFrom(_, _, _, _)
TokenizeFrom(s, idx, parens, result) ==
    IF CharAt(s, idx) = "" THEN TokenizeEnd(idx, parens, result)
    ELSE LET n == TokenizeStep(s, idx, parens, result)
         IN  IF n.err THEN n.thrown
             ELSE TokenizeFrom(s, n.idx, n.parens, n.result)

\* tokenize(equation)
tokenize(equation) == TokenizeFrom(equation, 0, 0, <<>>)


\* ------------------------------------------------------------------------
\* toRPN
\* ------------------------------------------------------------------------

\* a table in which Coefficient binds tighter than Add
precedence_CoefficientFirst ==
    [Subscript |-> 3, Add |-> 1, Coefficient |-> 2, Join |-> 0, Subtract |-> 0]

\* the precedence table of toRPN
precedence ==
    [Subscript |-> 3, Add |-> 2, Coefficient |-> 1, Join |-> 0, Subtract |-> 0]

\* the test of the operator case's while loop, for an operator stack that is
\* not empty: prec <= precedence[top[0]] (undefined for a GroupLeft on top,
\* and the comparison then is false)
PopsTop(type, top) ==
    top \in DOMAIN precedence /\ precedence[type] <= precedence[top]

\* the outcome of toRPN: a token sequence, an error thrown (by tokenize), or
\* no return at all
RPNDone(output) ==
    [status |-> "ok", kind |-> "", msg |-> "", prev |-> "", index |-> 0,
     tokens |-> output]
RPNDiverges ==
    [status |-> "diverge", kind |-> "", msg |-> "", prev |-> "", index |-> 0,
     tokens |-> <<>>]
RPNThrown(t) ==
    [status |-> "throw", kind |-> t.kind, msg |-> t.msg, prev |-> t.prev,
     index |-> t.index, tokens |-> <<>>]

\* a final loop that pops one operator only
Reverse_OnePop(q) == IF q = <<>> THEN <<>> ELSE <<q[Len(q)]>>

\* the sequence in reverse order
RECURSIVE Reverse(_)
Reverse(q) == IF q = <<>> THEN <<>> ELSE Append(Reverse(Tail(q)), Head(q))

\* the main loop of toRPN and the final emptying of the operator stack
RECURSIVE ToRPNLoop(_, _, _)
ToRPNLoop(input, output, operatorStack) ==
    IF input = <<>>
    THEN \* while ((tuple = operatorStack.pop())) output.push(tuple)
         RPNDone(output \o Reverse(operatorStack))
    ELSE LET token == Head(input)
             rest == Tail(input)
             n == Len(operatorStack)
         IN  IF token.type \in {"Number", "Atom"}
             THEN ToRPNLoop(rest, Append(output, token), operatorStack)
             ELSE IF token.type = "GroupLeft"
             THEN ToRPNLoop(rest, output, Append(operatorStack, token))
             ELSE IF token.type = "GroupRight"
             THEN IF n = 0
                  THEN \* peekBack() is undefined, which is not a GroupLeft, and
                       \* pop() of the empty stack pushes undefined to the output
                       \* without end
                       RPNDiverges
                  ELSE IF operatorStack[n].type # "GroupLeft"
                  THEN ToRPNLoop(input, Append(output, operatorStack[n]),
                                 SubSeq(operatorStack, 1, n - 1))
                  ELSE ToRPNLoop(rest, output, SubSeq(operatorStack, 1, n - 1))
             ELSE IF token.type \in DOMAIN precedence
             THEN IF n > 0 /\ PopsTop(token.type, operatorStack[n].type)
                  THEN ToRPNLoop(input, Append(output, operatorStack[n]),
                                 SubSeq(operatorStack, 1, n - 1))
                  ELSE ToRPNLoop(rest, output, Append(operatorStack, token))
             ELSE \* no case of the switch
                  ToRPNLoop(rest, output, operatorStack)

\* toRPN(tokens)
toRPN(tokens) == ToRPNLoop(tokens, <<>>, <<>>)

\* toRPN(formula)
toRPNString(formula) ==
    LET t == tokenize(formula)
    IN  IF t.err THEN RPNThrown(t) ELSE toRPN(t.tokens)


\* ------------------------------------------------------------------------
\* Molecule construction
\* ------------------------------------------------------------------------

\* new Molecule(atom, frequency) and Molecule.fromAtom(atom, frequency): with
\* frequency 0 neither branch of the constructor calls super(), and a derived
\* constructor that returns without it throws
MoleculeFromAtom(atom, frequency) ==
    IF frequency # 0 THEN MoleculeSet(EmptyMolecule, atom, frequency)
    ELSE Thrown(EmptyMolecule)

\* ------------------------------------------------------------------------
\* evaluate
\* ------------------------------------------------------------------------

\* instanceof Molecule || [0] === TokenType.Atom
IsAtomOrMolecule(x) == x.type \in {"Atom", "Molecule"}

\* operand checks that take a Molecule for no operator
OperandsAccepted_AtomsOnly(op, lhs, rhs) ==
    CASE op = "Subscript" -> lhs.type = "Atom" /\ rhs.type = "Number"
      [] op = "Coefficient" -> lhs.type = "Number" /\ rhs.type = "Atom"
      [] OTHER -> lhs.type = "Atom" /\ rhs.type = "Atom"

\* the operand types an operator accepts (lhs popped second, rhs popped first)
OperandsAccepted(op, lhs, rhs) ==
    CASE op = "Subscript" -> IsAtomOrMolecule(lhs) /\ rhs.type = "Number"
      [] op = "Coefficient" -> lhs.type = "Number" /\ IsAtomOrMolecule(rhs)
      [] OTHER -> IsAtomOrMolecule(lhs) /\ IsAtomOrMolecule(rhs)

\* an outer switch without the case for Join
BinaryOps_NoJoin == {"Add", "Subtract", "Coefficient", "Subscript"}

\* the cases of the outer switch that pop two operands
BinaryOps == {"Add", "Subtract", "Coefficient", "Subscript", "Join"}

\* an operator finds the operand stack, of n elements, empty when it pops its
\* rhs or when it pops its lhs
MissingOperand(n) == n = 0 \/ n = 1

\* the state of one run of evaluate: the input still to read, the operand
\* stack, the heap of Molecule objects, and the error thrown if any
EvalState(input, stack, heap, error) ==
    [input |-> input, stack |-> stack, heap |-> heap, error |-> error]

\* the kind of error evaluate throws for operands an operator does not accept
BadOperandError == "Error"

\* x instanceof Molecule ? x : Molecule.fromAtom(x[1]): the heap afterwards,
\* the object's index in it, and whether the construction threw
Promote(x, heap) ==
    IF x.type = "Molecule" THEN [err |-> FALSE, heap |-> heap, ref |-> x.ref]
    ELSE LET c == MoleculeFromAtom(x.atom, 1)
         IN  [err |-> c.err, heap |-> Append(heap, c.m), ref |-> Len(heap) + 1]

\* the inner switch of evaluate for operands of accepted types: the mutating
\* Molecule operation on the promoted operand
Operate(op, lhs, rhs, heap) ==
    LET p == Promote(IF op = "Coefficient" THEN rhs ELSE lhs, heap)
        m == p.heap[p.ref]
        r == CASE op = "Subscript" -> Done(MultiplyStatic(m, rhs.num))
               [] op = "Coefficient" -> Done(MultiplyStatic(m, lhs.num))
               [] op = "Subtract" ->
                    IF rhs.type = "Molecule"
                    THEN AddOrSubtractMolecule(m, TRUE, p.heap[rhs.ref])
                    ELSE AddOrSubtractAtom(m, TRUE, rhs.atom, 1)
               [] OTHER ->
                    IF rhs.type = "Molecule"
                    THEN AddOrSubtractMolecule(m, FALSE, p.heap[rhs.ref])
                    ELSE AddOrSubtractAtom(m, FALSE, rhs.atom, 1)
    IN  IF p.err THEN [err |-> TRUE, heap |-> heap, ref |-> 0]
        ELSE [err |-> r.err, heap |-> [p.heap EXCEPT ![p.ref] = r.m], ref |-> p.ref]

\* one turn of the while loop of evaluate, for an input that is not empty
EvalStep(st) ==
    LET token == Head(st.input)
        rest == Tail(st.input)
        n == Len(st.stack)
    IN  IF token.type \in {"Molecule", "Number", "Atom"}
        THEN EvalState(rest, Append(st.stack, token), st.heap, "")
        ELSE IF token.type \in BinaryOps
        THEN IF MissingOperand(n)
             THEN EvalState(rest, <<>>, st.heap, "Error")
             ELSE LET rightEvaluatable == st.stack[n]
                      leftEvaluatable == st.stack[n - 1]
                      below == SubSeq(st.stack, 1, n - 2)
                  IN  IF ~OperandsAccepted(token.type, leftEvaluatable, rightEvaluatable)
                      THEN EvalState(rest, below, st.heap, BadOperandError)
                      ELSE LET r == Operate(token.type, leftEvaluatable,
                                            rightEvaluatable, st.heap)
                           IN  IF r.err
                               THEN EvalState(rest, below, r.heap, "Error")
                               ELSE EvalState(rest, Append(below, MoleculeRef(r.ref)),
                                              r.heap, "")
        ELSE \* GroupLeft, GroupRight: no case of the switch
             EvalState(rest, st.stack, st.heap, "")

\* the while loop of evaluate
RECURSIVE EvalLoop(_)
EvalLoop(st) ==
    IF st.error # "" \/ st.input = <<>> THEN st ELSE EvalLoop(EvalStep(st))

\* the outcome of evaluate: the value returned or the error thrown, and
\* the heap and what was left on the operand stack when it ended
Outcome(status, error, kind, mol, num, atom, heap, left) ==
    [status |-> status, error |-> error, kind |-> kind, mol |-> mol, num |-> num,
     atom |-> atom, heap |-> heap, left |-> left]

EvalThrown(error, heap) ==
    Outcome("throw", error, "", EmptyMolecule, 0, <<>>, heap, 0)

\* the result extraction at the end of evaluate
Extract(st) ==
    LET n == Len(st.stack)
        evaluated == st.stack[n]
    IN  IF n = 0
        THEN \* operandStack.pop() is undefined and cannot be destructured
             EvalThrown("TypeError", st.heap)
        ELSE IF evaluated.type = "Molecule"
        THEN Outcome("ok", "", "Molecule", st.heap[evaluated.ref], 0, <<>>,
                     st.heap, n - 1)
        ELSE IF evaluated.type = "Number"
        THEN Outcome("ok", "", "number", EmptyMolecule, evaluated.num, <<>>,
                     st.heap, n - 1)
        ELSE Outcome("ok", "", "atom", EmptyMolecule, 0, evaluated.atom,
                     st.heap, n - 1)

\* evaluate(tokens), the Molecule objects of the sequence being those of heap
evaluate(tokens, heap) ==
    IF tokens = <<>> THEN EvalThrown("Error", heap)
    ELSE LET st == EvalLoop(EvalState(tokens, <<>>, heap, ""))
         IN  IF st.error # "" THEN EvalThrown(st.error, st.heap)
             ELSE Extract(st)

\* evaluate(formula): toRPN(tokenize(formula)), then as for a token sequence
evaluateString(formula) ==
    LET t == tokenize(formula)
        r == toRPN(t.tokens)
    IN  IF t.err THEN EvalThrown(t.kind, <<>>)
        ELSE IF r.status # "ok" THEN EvalThrown(r.status, <<>>)
        ELSE evaluate(r.tokens, <<>>)


\* ------------------------------------------------------------------------
\* Molecule methods
\* ------------------------------------------------------------------------

\* The arguments of add, addMut, subtract and subtractMut: an atom with a
\* frequency (1 when omitted), or a Molecule object.
AtomArg(atom, freq) == [isString |-> TRUE, atom |-> atom, freq |-> freq, ref |-> ""]
MoleculeArg(ref) == [isString |-> FALSE, atom |-> <<>>, freq |-> 1, ref |-> ref]

\* addOrSubtractStatic(lhs, subtract, ...args), the objects being those of heap
addOrSubtractStatic(lhs, subtract, arg, heap) ==
    IF arg.isString THEN AddOrSubtractAtom(lhs, subtract, arg.atom, arg.freq)
    ELSE AddOrSubtractMolecule(lhs, subtract, heap[arg.ref])

\* a constructor that passes nothing to the Map constructor
MoleculeCopy_Empty(m) == Done(EmptyMolecule)

\* new Molecule(molecule): the Map constructor calls set for every entry
RECURSIVE MoleculeCopy(_)
MoleculeCopy(m) ==
    IF m = {} THEN Done(EmptyMolecule)
    ELSE LET e == CHOOSE x \in m : TRUE
             c == MoleculeCopy(m \ {e})
         IN  IF c.err THEN c ELSE MoleculeSet(c.m, e[1], e[2])

\* new Molecule(atoms): every atom is tested, an omitted frequency is 1, and
\* the Map constructor calls set for every pair in order
Pair(atom, given, freq) == [atom |-> atom, given |-> given, freq |-> freq]
RECURSIVE MoleculeFromPairs(_)
MoleculeFromPairs(pairs) ==
    IF pairs = <<>> THEN Done(EmptyMolecule)
    ELSE LET n == Len(pairs)
             p == pairs[n]
             c == MoleculeFromPairs(SubSeq(pairs, 1, n - 1))
         IN  IF c.err \/ ~ATOM_LITERAL_TEST(p.atom) THEN Thrown(EmptyMolecule)
             ELSE MoleculeSet(c.m, p.atom, IF p.given THEN p.freq ELSE 1)

\* ------------------------------------------------------------------------
\* State
\* ------------------------------------------------------------------------

VARIABLES
    heap,      \* the Molecule objects: heap[i] is the value of object i
    last,      \* the last Molecule method called, its destination and arguments
    formula,   \* the formula string given to evaluate
    tokens,    \* the token sequence given to evaluate (the caller's Denque)
    given,     \* the overload of evaluate called: "none", "string", "tokens"
    pc,        \* where the caller is: "idle", "build", "run", "returned", "thrown"
    input,     \* evaluate's copy of its input, still to read
    stack,     \* evaluate's operand stack
    outcome,   \* what evaluate returned or threw
    occurrences, \* the atoms written in the formula, each with its multiplier
    groups,    \* the groups of the formula still open, the formula itself first
    terms,     \* three sub-formulas and the two operators between them
    results,   \* what toRPN and evaluate gave for each way of writing them
    idx,       \* tokenize's index into its input
    parens     \* tokenize's count of left brackets not yet closed

vars == <<heap, last, formula, tokens, given, pc, input, stack, outcome,
          occurrences, groups, terms, results, idx, parens>>

\* the loop variables of tokenize
scanVars == <<idx, parens>>

\* what the writer of formulas and sub-formulas holds
writerVars == <<occurrences, groups, terms, results>>

evalVars == <<formula, tokens, given, pc, input, stack, outcome, writerVars, scanVars>>

\* ------------------------------------------------------------------------
\* Bounds of the model
\* ------------------------------------------------------------------------

\* frequencies of the Molecule objects stay within -MaxFreq..MaxFreq
MaxFreq == 1


\* the atom symbols given to the Molecule methods
MolAtoms == {<<"H">>, <<"O">>}

FreqRange == (0 - MaxFreq)..MaxFreq

InRange(m) == \A e \in m : e[2] \in FreqRange

NoCall == [op |-> "none", dest |-> "", arg |-> AtomArg(<<>>, 0), mult |-> 0,
           threw |-> FALSE]

Call(op, dest, arg, mult, threw) ==
    [op |-> op, dest |-> dest, arg |-> arg, mult |-> mult, threw |-> threw]

NoArg == AtomArg(<<>>, 0)

\* ------------------------------------------------------------------------
\* The Molecule methods as operations on the caller's objects.  Object This
\* is the receiver of every method; a constructor or a non-mutating method
\* assigns the object it returns to any of the caller's objects.
\* ------------------------------------------------------------------------

This == "this"
Other == "other"
Objects == {This, Other}

\* the arguments drawn for add and subtract
Args == {AtomArg(a, f) : a \in MolAtoms, f \in FreqRange}
            \cup {MoleculeArg(j) : j \in Objects}

\* an operation's result r is stored in object dest unless it threw
Store(op, dest, arg, mult, r) ==
    /\ InRange(r.m)
    /\ heap' = IF r.err THEN heap ELSE [heap EXCEPT ![dest] = r.m]
    /\ last' = Call(op, dest, arg, mult, r.err)
    /\ UNCHANGED evalVars

\* a mutating method leaves what it did before a throw in the receiver
StoreMut(op, arg, mult, r) ==
    /\ InRange(r.m)
    /\ heap' = [heap EXCEPT ![This] = r.m]
    /\ last' = Call(op, This, arg, mult, r.err)
    /\ UNCHANGED evalVars

\* d = new Molecule()
Construct ==
    \E d \in Objects : Store("new", d, NoArg, 0, Done(EmptyMolecule))

\* d = new Molecule(atom, frequency)
ConstructAtom ==
    \E d \in Objects, a \in MolAtoms, f \in FreqRange :
        Store("newAtom", d, AtomArg(a, f), 0, MoleculeFromAtom(a, f))

\* d = new Molecule(heap[j])
ConstructCopy ==
    \E d \in Objects, j \in Objects :
        Store("newCopy", d, MoleculeArg(j), 0, MoleculeCopy(heap[j]))

\* this.set(key, value)
Set ==
    \E a \in MolAtoms, f \in FreqRange :
        StoreMut("set", AtomArg(a, f), 0, MoleculeSet(heap[This], a, f))

\* this.addMut(...args)
addMut ==
    \E x \in Args :
        StoreMut("addMut", x, 0, addOrSubtractStatic(heap[This], FALSE, x, heap))

\* d = this.add(...args)
add ==
    \E d \in Objects, x \in Args :
        LET c == MoleculeCopy(heap[This])
        IN  Store("add", d, x, 0,
                  IF c.err THEN c ELSE addOrSubtractStatic(c.m, FALSE, x, heap))

\* this.subtractMut(...args)
subtractMut ==
    \E x \in Args :
        StoreMut("subtractMut", x, 0, addOrSubtractStatic(heap[This], TRUE, x, heap))

\* d = this.subtract(...args)
subtract ==
    \E d \in Objects, x \in Args :
        LET c == MoleculeCopy(heap[This])
        IN  Store("subtract", d, x, 0,
                  IF c.err THEN c ELSE addOrSubtractStatic(c.m, TRUE, x, heap))

\* this.multiplyMut(multiplier)
multiplyMut ==
    \E n \in FreqRange :
        StoreMut("multiplyMut", NoArg, n, Done(MultiplyStatic(heap[This], n)))

\* d = this.multiply(multiplier)
multiply ==
    \E d \in Objects, n \in FreqRange :
        LET c == MoleculeCopy(heap[This])
        IN  Store("multiply", d, NoArg, n,
                  IF c.err THEN c ELSE Done(MultiplyStatic(c.m, n)))

\* this.negateMut()
negateMut ==
    StoreMut("negateMut", NoArg, -1, Done(MultiplyStatic(heap[This], -1)))

\* d = this.negate()
negate ==
    \E d \in Objects :
        LET c == MoleculeCopy(heap[This])
        IN  Store("negate", d, NoArg, -1,
                  IF c.err THEN c ELSE Done(MultiplyStatic(c.m, -1)))

\* nothing written yet: the formula is its own outermost group
NoGroups == <<[start |-> 0, coefficient |-> 1, closed |-> 0]>>
NoTerms == [a |-> <<>>, b |-> <<>>, c |-> <<>>, o1 |-> "", o2 |-> ""]
NoResult == [phase |-> "none", rpn |-> RPNDone(<<>>), value |-> EvalThrown("", <<>>)]
NoResults == [w \in {"flat", "left", "right"} |-> NoResult]

IdleWriter ==
    /\ occurrences = <<>> /\ groups = NoGroups
    /\ terms = NoTerms /\ results = NoResults
    /\ idx = 0 /\ parens = 0

IdleEval ==
    /\ formula = <<>> /\ tokens = <<>> /\ given = "none" /\ pc = "idle"
    /\ input = <<>> /\ stack = <<>> /\ outcome = EvalThrown("", <<>>)
    /\ IdleWriter

InitMolecule ==
    /\ heap = [i \in Objects |-> EmptyMolecule]
    /\ last = NoCall
    /\ IdleEval

NextMolecule ==
    \/ Construct \/ ConstructAtom \/ ConstructCopy \/ Set
    \/ addMut \/ add \/ subtractMut \/ subtract
    \/ multiplyMut \/ multiply \/ negateMut \/ negate

SpecMolecule == InitMolecule /\ [][NextMolecule]_vars


\* ------------------------------------------------------------------------
\* evaluate, called by a caller that holds Molecule objects and composes a
\* formula string or a token sequence
\* ------------------------------------------------------------------------

\* the longest formula string and the longest token sequence composed
MaxStr == 4
MaxTokens == 3

\* the characters typed, the numbers and the atoms of the tokens pushed
EvalChars == {"H", "c", "2", "(", ")", "-", " "}
EvalNumbers == {0, 2}
EvalAtoms == {<<"H">>}

\* the Molecule objects the caller holds when it starts
Mol1(a, f) == {<<a, f>>}
Mol2(a, f, b, g) == {<<a, f>>, <<b, g>>}
EvalHeaps ==
    { <<EmptyMolecule, Mol1(<<"H">>, -1), Mol2(<<"H">>, 1, <<"O">>, -2)>>,
      <<Mol1(<<"H">>, 2), Mol1(<<"H">>, -2), Mol2(<<"H">>, -1, <<"O">>, 2)>> }

\* what the caller can push to its token sequence
Evaluatables ==
    {Tok(t) : t \in TokenType \ {"Number", "Atom"}}
        \cup {NumberToken(n) : n \in EvalNumbers}
        \cup {AtomToken(a) : a \in EvalAtoms}
        \cup {MoleculeRef(i) : i \in DOMAIN heap}

\* the caller types one more character of the formula
TypeChar ==
    /\ pc = "build" /\ tokens = <<>> /\ Len(formula) < MaxStr
    /\ \E c \in EvalChars : formula' = Append(formula, c)
    /\ UNCHANGED <<heap, last, tokens, given, pc, input, stack, outcome, writerVars, scanVars>>

\* the caller pushes one more element to its token sequence
PushToken ==
    /\ pc = "build" /\ formula = <<>> /\ Len(tokens) < MaxTokens
    /\ \E x \in Evaluatables : tokens' = Append(tokens, x)
    /\ UNCHANGED <<heap, last, formula, given, pc, input, stack, outcome, writerVars, scanVars>>

\* evaluate up to its loop, for the converted input
Enter(how, converted) ==
    /\ given' = how
    /\ stack' = <<>>
    /\ IF converted.status # "ok"
       THEN /\ pc' = "thrown"
            /\ input' = <<>>
            /\ outcome' = EvalThrown(converted.kind, heap)
       ELSE IF converted.tokens = <<>>
       THEN \* if (input.isEmpty()) throw new Error("Empty input")
            /\ pc' = "thrown"
            /\ input' = <<>>
            /\ outcome' = EvalThrown("Error", heap)
       ELSE /\ pc' = "run"
            /\ input' = converted.tokens
            /\ UNCHANGED outcome
    /\ UNCHANGED <<heap, last, formula, tokens, writerVars, scanVars>>

\* evaluate(formula): input = toRPN(tokenize(input))
CallEvaluateString ==
    /\ pc = "build" /\ tokens = <<>>
    /\ Enter("string", toRPNString(formula))

\* evaluate(tokens): input = new Denque(input.toArray())
CallEvaluateTokens ==
    /\ pc = "build" /\ formula = <<>>
    /\ Enter("tokens", RPNDone(tokens))

\* one turn of the loop of evaluate
Turn ==
    LET st == EvalStep(EvalState(input, stack, heap, ""))
    IN  /\ input' = st.input
        /\ stack' = st.stack
        /\ heap' = st.heap
        /\ IF st.error # ""
           THEN pc' = "thrown" /\ outcome' = EvalThrown(st.error, st.heap)
           ELSE UNCHANGED <<pc, outcome>>
        /\ UNCHANGED <<last, formula, tokens, given, writerVars, scanVars>>

\* a Molecule, a Number or an Atom is pushed to the operand stack
PushOperand ==
    /\ pc = "run" /\ input # <<>>
    /\ Head(input).type \in {"Molecule", "Number", "Atom"}
    /\ Turn

\* a binary operator pops two operands and pushes its result
ApplyOperator ==
    /\ pc = "run" /\ input # <<>>
    /\ Head(input).type \in BinaryOps
    /\ Turn

\* a token of any other type matches no case
SkipToken ==
    /\ pc = "run" /\ input # <<>>
    /\ Head(input).type \notin {"Molecule", "Number", "Atom"} \cup BinaryOps
    /\ Turn

\* the input is exhausted: the result is popped from the operand stack
Return ==
    /\ pc = "run" /\ input = <<>>
    /\ outcome' = Extract(EvalState(input, stack, heap, ""))
    /\ pc' = IF outcome'.status = "ok" THEN "returned" ELSE "thrown"
    /\ UNCHANGED <<heap, last, formula, tokens, given, input, stack, writerVars, scanVars>>

InitEvaluate ==
    /\ heap \in EvalHeaps
    /\ last = NoCall
    /\ formula = <<>> /\ tokens = <<>> /\ given = "none" /\ pc = "build"
    /\ input = <<>> /\ stack = <<>> /\ outcome = EvalThrown("", <<>>)
    /\ IdleWriter

NextEvaluate ==
    \/ TypeChar \/ PushToken
    \/ CallEvaluateString \/ CallEvaluateTokens
    \/ PushOperand \/ ApplyOperator \/ SkipToken \/ Return

SpecEvaluate == InitEvaluate /\ [][NextEvaluate]_vars

\* ------------------------------------------------------------------------
\* evaluate, called with formulas written from atom symbols, subscripts,
\* coefficients at the start of the formula or of a group, and groups
\* ------------------------------------------------------------------------

\* the longest formula written
MaxFormula == 7

\* the atom symbols and the numerals written
FormulaAtoms == {<<"H">>, <<"O">>}
FormulaNumerals == {<<"2">>, <<"1", "0">>}

LastChar == IF formula = <<>> THEN "" ELSE formula[Len(formula)]

Fits(chars) == Len(formula) + Len(chars) <= MaxFormula

CurrentGroup == groups[Len(groups)]

\* the occurrences after the first `from`, each multiplied by n
MultiplyAfter(from, n) ==
    [i \in DOMAIN occurrences |->
        IF i > from
        THEN [occurrences[i] EXCEPT !.mult = @ * n]
        ELSE occurrences[i]]

\* the writer's part of the state that evaluate leaves alone
WriterKeeps == UNCHANGED <<heap, last, tokens, given, pc, input, stack, outcome,
                           terms, results, scanVars>>

\* a coefficient at the start of the formula or of a group multiplies every
\* atom of that formula or group
AddCoefficient ==
    /\ pc = "build" /\ LastChar \in {"", "("}
    /\ \E n \in FormulaNumerals :
         /\ Fits(n)
         /\ formula' = formula \o n
         /\ groups' = [groups EXCEPT ![Len(groups)].coefficient = @ * DecimalValue(n)]
    /\ UNCHANGED occurrences
    /\ WriterKeeps

\* an atom symbol, under the coefficients of the groups that enclose it
AddAtom ==
    /\ pc = "build"
    /\ \E a \in FormulaAtoms :
         /\ Fits(a)
         /\ formula' = formula \o a
         /\ occurrences' = Append(occurrences,
                                  [atom |-> a, mult |-> CurrentGroup.coefficient])
    /\ groups' = [groups EXCEPT ![Len(groups)].closed = Len(occurrences)]
    /\ WriterKeeps

\* a group opens under the coefficients of the groups that enclose it
OpenGroup ==
    /\ pc = "build" /\ Fits(<<"(">>)
    /\ formula' = Append(formula, "(")
    /\ groups' = Append(groups, [start |-> Len(occurrences),
                                 coefficient |-> CurrentGroup.coefficient,
                                 closed |-> Len(occurrences)])
    /\ UNCHANGED occurrences
    /\ WriterKeeps

\* a group that holds at least one atom closes
CloseGroup ==
    /\ pc = "build" /\ Fits(<<")">>)
    /\ Len(groups) > 1
    /\ Len(occurrences) > CurrentGroup.start
    /\ formula' = Append(formula, ")")
    /\ groups' = [SubSeq(groups, 1, Len(groups) - 1)
                    EXCEPT ![Len(groups) - 1].closed = CurrentGroup.start]
    /\ UNCHANGED occurrences
    /\ WriterKeeps

\* a subscript multiplies the atom or the group it follows
AddSubscript ==
    /\ pc = "build" /\ LastChar \in Upper \cup Lower \cup {")"}
    /\ \E n \in FormulaNumerals :
         /\ Fits(n)
         /\ formula' = formula \o n
         /\ occurrences' = MultiplyAfter(CurrentGroup.closed, DecimalValue(n))
    /\ UNCHANGED groups
    /\ WriterKeeps

\* every group is closed and the formula holds an atom
Complete == Len(groups) = 1 /\ occurrences # <<>>

\* evaluate(formula) for a complete formula
EvaluateFormula ==
    /\ Complete
    /\ CallEvaluateString

InitFormula ==
    /\ heap = <<>>
    /\ last = NoCall
    /\ formula = <<>> /\ tokens = <<>> /\ given = "none" /\ pc = "build"
    /\ input = <<>> /\ stack = <<>> /\ outcome = EvalThrown("", <<>>)
    /\ IdleWriter

NextFormula ==
    \/ AddCoefficient \/ AddAtom \/ OpenGroup \/ CloseGroup \/ AddSubscript
    \/ EvaluateFormula
    \/ PushOperand \/ ApplyOperator \/ Return

SpecFormula == InitFormula /\ [][NextFormula]_vars


\* ------------------------------------------------------------------------
\* toRPN and evaluate, called on three sub-formulas joined by '+' and '-',
\* written without brackets, with the first two in brackets, and with the
\* last two in brackets
\* ------------------------------------------------------------------------

\* the operand sub-formulas: H, O2, 2H, (H-O), HO
AssocTerms ==
    { <<"H">>, <<"O", "2">>, <<"2", "H">>, <<"(", "H", "-", "O", ")">>,
      <<"H", "O">> }

AssocOperators == {"+", "-"}

Ways == {"flat", "left", "right"}

\* "A o1 B o2 C", "(A o1 B) o2 C" and "A o1 (B o2 C)"
Written(w) ==
    IF w = "flat"
    THEN terms.a \o <<" ", terms.o1, " ">> \o terms.b
                 \o <<" ", terms.o2, " ">> \o terms.c
    ELSE IF w = "left"
    THEN <<"(">> \o terms.a \o <<terms.o1>> \o terms.b \o <<")", terms.o2>>
                 \o terms.c
    ELSE terms.a \o <<terms.o1, "(">> \o terms.b \o <<terms.o2>> \o terms.c
                 \o <<")">>

AssocKeeps == UNCHANGED <<heap, last, formula, tokens, given, pc, input, stack,
                          outcome, occurrences, groups, terms, scanVars>>

\* toRPN(formula) for one of the three ways of writing
CallToRPN ==
    /\ \E w \in Ways :
         /\ results[w].phase = "none"
         /\ results' = [results EXCEPT ![w].phase = "rpn",
                                       ![w].rpn = toRPNString(Written(w))]
    /\ AssocKeeps

\* evaluate(formula) for one of the three ways of writing
CallEvaluate ==
    /\ \E w \in Ways :
         /\ results[w].phase = "rpn"
         /\ results' = [results EXCEPT ![w].phase = "value",
                                       ![w].value = evaluateString(Written(w))]
    /\ AssocKeeps

InitAssoc ==
    /\ heap = <<>>
    /\ last = NoCall
    /\ formula = <<>> /\ tokens = <<>> /\ given = "none" /\ pc = "idle"
    /\ input = <<>> /\ stack = <<>> /\ outcome = EvalThrown("", <<>>)
    /\ occurrences = <<>> /\ groups = NoGroups
    /\ terms \in [a : AssocTerms, b : AssocTerms, c : AssocTerms,
                  o1 : AssocOperators, o2 : AssocOperators]
    /\ results = NoResults
    /\ idx = 0 /\ parens = 0

NextAssoc == CallToRPN \/ CallEvaluate

SpecAssoc == InitAssoc /\ [][NextAssoc]_vars


\* ------------------------------------------------------------------------
\* One call of a Molecule method, on a receiver and an argument holding any
\* frequencies, the object a non-mutating method returns being held as Result
\* ------------------------------------------------------------------------

Result == "result"

\* the Molecules of up to two atoms with frequencies in the range
FrameMolecules ==
    {EmptyMolecule}
        \cup {Mol1(a, f) : a \in MolAtoms, f \in FreqRange}
        \cup {Mol2(<<"H">>, f, <<"O">>, g) : f \in FreqRange, g \in FreqRange}

\* the arguments drawn: an atom with a frequency, the other Molecule, or the
\* receiver itself
FrameArgs == {AtomArg(a, f) : a \in MolAtoms, f \in FreqRange}
                \cup {MoleculeArg(j) : j \in {This, Other}}

\* a method that works on the receiver and returns it as if it were a copy
CopyWritten_Receiver == {This, Result}

\* the objects a non-mutating method writes to: the copy it made with
\* new Molecule(this), which the caller holds as Result
CopyWritten == {Result}

\* a non-mutating method works on the copy and returns it
Returns(op, arg, mult, c, r) ==
    /\ heap' = [i \in DOMAIN heap |->
                  IF c.err \/ i \notin CopyWritten THEN heap[i] ELSE r.m]
    /\ last' = Call(op, Result, arg, mult, c.err \/ r.err)
    /\ UNCHANGED evalVars

\* a mutating method works on the receiver and returns it
Mutates(op, arg, mult, r) ==
    /\ heap' = [heap EXCEPT ![This] = r.m]
    /\ last' = Call(op, This, arg, mult, r.err)
    /\ UNCHANGED evalVars

CallAdd ==
    /\ last.op = "none"
    /\ \E x \in FrameArgs :
         LET c == MoleculeCopy(heap[This])
         IN  Returns("add", x, 0, c, addOrSubtractStatic(c.m, FALSE, x, heap))

CallAddMut ==
    /\ last.op = "none"
    /\ \E x \in FrameArgs :
         Mutates("addMut", x, 0, addOrSubtractStatic(heap[This], FALSE, x, heap))

CallSubtract ==
    /\ last.op = "none"
    /\ \E x \in FrameArgs :
         LET c == MoleculeCopy(heap[This])
         IN  Returns("subtract", x, 0, c, addOrSubtractStatic(c.m, TRUE, x, heap))

CallSubtractMut ==
    /\ last.op = "none"
    /\ \E x \in FrameArgs :
         Mutates("subtractMut", x, 0, addOrSubtractStatic(heap[This], TRUE, x, heap))

CallMultiply ==
    /\ last.op = "none"
    /\ \E n \in FreqRange :
         LET c == MoleculeCopy(heap[This])
         IN  Returns("multiply", NoArg, n, c, Done(MultiplyStatic(c.m, n)))

CallMultiplyMut ==
    /\ last.op = "none"
    /\ \E n \in FreqRange :
         Mutates("multiplyMut", NoArg, n, Done(MultiplyStatic(heap[This], n)))

CallNegate ==
    /\ last.op = "none"
    /\ LET c == MoleculeCopy(heap[This])
          IN  Returns("negate", NoArg, -1, c, Done(MultiplyStatic(c.m, -1)))

CallNegateMut ==
    /\ last.op = "none"
    /\ Mutates("negateMut", NoArg, -1, Done(MultiplyStatic(heap[This], -1)))

\* .subtract(x), on the Molecule that m.add(x) returned
ThenSubtract ==
    /\ last.op = "add" /\ ~last.threw /\ ~last.arg.isString
    /\ LET c == MoleculeCopy(heap[Result])
           r == addOrSubtractStatic(c.m, TRUE, last.arg, heap)
       IN  /\ heap' = [heap EXCEPT ![Result] = IF c.err THEN @ ELSE r.m]
           /\ last' = Call("add.subtract", Result, last.arg, 0, c.err \/ r.err)
    /\ UNCHANGED evalVars

\* .add(x), on the Molecule that m.subtract(x) returned
ThenAdd ==
    /\ last.op = "subtract" /\ ~last.threw /\ ~last.arg.isString
    /\ LET c == MoleculeCopy(heap[Result])
           r == addOrSubtractStatic(c.m, FALSE, last.arg, heap)
       IN  /\ heap' = [heap EXCEPT ![Result] = IF c.err THEN @ ELSE r.m]
           /\ last' = Call("subtract.add", Result, last.arg, 0, c.err \/ r.err)
    /\ UNCHANGED evalVars

InitFrame ==
    /\ heap \in [{This, Other, Result} -> FrameMolecules]
    /\ heap[Result] = EmptyMolecule
    /\ last = NoCall
    /\ IdleEval

NextFrame ==
    \/ CallAdd \/ CallAddMut \/ CallSubtract \/ CallSubtractMut
    \/ CallMultiply \/ CallMultiplyMut \/ CallNegate \/ CallNegateMut
    \/ ThenSubtract \/ ThenAdd

SpecFrame == InitFrame /\ [][NextFrame]_vars


\* ------------------------------------------------------------------------
\* Molecule.set and the constructors, given any string as a key
\* ------------------------------------------------------------------------

\* the longest key given and the most entries a Molecule is given
MaxKey == 3
MaxEntries == 2

KeyChars == {"H", "a"}

Keys == StringsUpTo(KeyChars, MaxKey)

\* [atom] and [atom, freq] as given to new Molecule(atoms)
KeyPairs == {Pair(k, g, 2) : k \in Keys, g \in BOOLEAN}

Room == Cardinality(heap[This]) < MaxEntries

Keeps(op, key, r) ==
    /\ heap' = IF r.err THEN heap ELSE [heap EXCEPT ![This] = r.m]
    /\ last' = Call(op, This, AtomArg(key, 1), 0, r.err)
    /\ UNCHANGED evalVars

\* this.set(key, 1)
KeySet ==
    /\ Room
    /\ \E k \in Keys : Keeps("set", k, MoleculeSet(heap[This], k, 1))

\* this = new Molecule(key) and this = new Molecule(key, 2)
KeyConstructAtom ==
    /\ Room
    /\ \E k \in Keys, f \in {1, 2} :
         Keeps("newAtom", k, MoleculeFromAtom(k, f))

\* this = new Molecule([pair]) and this = new Molecule([pair, pair])
KeyConstructPairs ==
    /\ Room
    /\ \E p \in KeyPairs :
         \/ Keeps("newPairs", p.atom, MoleculeFromPairs(<<p>>))
         \/ \E q \in KeyPairs :
              Keeps("newPairs", q.atom, MoleculeFromPairs(<<p, q>>))

\* this = new Molecule(this)
KeyConstructCopy ==
    /\ heap[This] # EmptyMolecule
    /\ last.op # "newCopy"
    /\ Keeps("newCopy", <<>>, MoleculeCopy(heap[This]))

InitKeys ==
    /\ heap = [i \in Objects |-> EmptyMolecule]
    /\ last = NoCall
    /\ IdleEval

NextKeys == KeySet \/ KeyConstructAtom \/ KeyConstructPairs \/ KeyConstructCopy

SpecKeys == InitKeys /\ [][NextKeys]_vars


\* ------------------------------------------------------------------------
\* tokenize, one turn of its loop at a time, on any string of characters
\* ------------------------------------------------------------------------

\* the longest string given to tokenize
MaxScan == 5

\* a character of each class tokenize tells apart; "a" and "?" are the
\* lowercase letter and the character of no class
ScanChars == {"H", "a", "2", "(", ")", "+", "-", " ", "?"}

\* one turn of the loop for a character of the classes cs
ScanTurn(cs) ==
    /\ pc = "scan" /\ CharAt(formula, idx) \in cs
    /\ LET n == TokenizeStep(formula, idx, parens, tokens)
       IN  /\ idx' = n.idx
           /\ parens' = n.parens
           /\ tokens' = n.result
           /\ IF n.err
              THEN pc' = "thrown" /\ outcome' = n.thrown
              ELSE UNCHANGED <<pc, outcome>>
    /\ UNCHANGED <<heap, last, formula, given, input, stack, writerVars>>

ScanNumber ==
    /\ CharAt(formula, idx) \in Digit
    /\ ScanTurn(Digit)

ScanAtom ==
    /\ CharAt(formula, idx) \in Upper
    /\ ScanTurn(Upper)

ScanGroupLeft ==
    /\ CharAt(formula, idx) = "("
    /\ ScanTurn({"("})

ScanGroupRight ==
    /\ CharAt(formula, idx) = ")"
    /\ ScanTurn({")"})

ScanPlus ==
    /\ CharAt(formula, idx) = "+"
    /\ ScanTurn({"+"})

ScanMinus ==
    /\ CharAt(formula, idx) = "-"
    /\ ScanTurn({"-"})

ScanSpace ==
    /\ CharAt(formula, idx) \in Space
    /\ ScanTurn(Space)

ScanUnknown ==
    /\ CharAt(formula, idx) \notin
          Digit \cup Upper \cup Space \cup {"(", ")", "+", "-", ""}
    /\ ScanTurn(ScanChars)

\* the loop stops at the end of the input
ScanEnd ==
    /\ pc = "scan" /\ CharAt(formula, idx) = ""
    /\ outcome' = TokenizeEnd(idx, parens, tokens)
    /\ pc' = IF outcome'.err THEN "thrown" ELSE "tokenized"
    /\ UNCHANGED <<heap, last, formula, tokens, given, input, stack, writerVars,
                   scanVars>>

\* toRPN(tokens) for the sequence tokenize returned
ConvertTokens ==
    /\ pc = "tokenized"
    /\ outcome' = toRPN(tokens)
    /\ pc' = "converted"
    /\ UNCHANGED <<heap, last, formula, tokens, given, input, stack, writerVars,
                   scanVars>>

InitTokenize ==
    /\ heap = <<>>
    /\ last = NoCall
    /\ formula \in StringsUpTo(ScanChars, MaxScan)
    /\ tokens = <<>> /\ given = "string" /\ pc = "scan"
    /\ input = <<>> /\ stack = <<>> /\ outcome = Tokenized(<<>>)
    /\ IdleWriter

NextTokenize ==
    \/ ScanNumber \/ ScanAtom \/ ScanGroupLeft \/ ScanGroupRight
    \/ ScanPlus \/ ScanMinus \/ ScanSpace \/ ScanUnknown \/ ScanEnd
    \/ ConvertTokens

SpecTokenize == InitTokenize /\ [][NextTokenize]_vars


\* ------------------------------------------------------------------------
\* toRPN, called on any token sequence
\* ------------------------------------------------------------------------

\* the longest token sequence given to toRPN
MaxGiven == 3

\* a token of every type
GivenTokens ==
    {Tok(t) : t \in TokenType \ {"Number", "Atom"}}
        \cup {NumberToken(2), AtomToken(<<"H">>)}

RECURSIVE SequencesUpTo(_, _)
SequencesUpTo(elements, n) ==
    IF n = 0 THEN {<<>>}
    ELSE LET shorter == SequencesUpTo(elements, n - 1)
         IN  shorter \cup {Append(q, x) : q \in shorter, x \in elements}

\* toRPN(tokens): it returns, or its GroupRight loop never ends
ConvertGiven ==
    /\ pc = "build"
    /\ outcome' = toRPN(tokens)
    /\ pc' = IF outcome'.status = "ok" THEN "converted" ELSE "looping"
    /\ UNCHANGED <<heap, last, formula, tokens, given, input, stack, writerVars,
                   scanVars>>

InitToRPN ==
    /\ heap = <<>>
    /\ last = NoCall
    /\ formula = <<>>
    /\ tokens \in SequencesUpTo(GivenTokens, MaxGiven)
    /\ given = "tokens" /\ pc = "build"
    /\ input = <<>> /\ stack = <<>> /\ outcome = RPNDone(<<>>)
    /\ IdleWriter

NextToRPN == ConvertGiven

SpecToRPN == InitToRPN /\ [][NextToRPN]_vars


\* ------------------------------------------------------------------------
\* toRPN and evaluate, called on a formula string and on the token sequences
\* made from it
\* ------------------------------------------------------------------------

AlikeChars == {"H", "0", "2", "(", ")", "+", "-"}

\* the calls compared
RPNCalls == {"toRPN(f)", "toRPN(tokenize(f))"}
EvaluateCalls ==
    {"evaluate(f)", "evaluate(toRPN(f))", "evaluate(toRPN(tokenize(f)))"}

\* a copy that holds nothing
CopyOf_Nothing(q) == <<>>

\* new Denque(input.toArray()): a new sequence of the same elements
CopyOf(q) == [i \in 1..Len(q) |-> q[i]]

\* toRPN(tokenize(formula)): the argument is evaluated first, then copied
toRPNTokenized(f) ==
    LET t == tokenize(f)
    IN  IF t.err THEN RPNThrown(t) ELSE toRPN(CopyOf(t.tokens))

\* evaluate(r) for r the outcome of the argument expression
evaluateConverted(r) ==
    IF r.status = "throw" THEN EvalThrown(r.kind, <<>>)
    ELSE IF r.status # "ok" THEN EvalThrown(r.status, <<>>)
    ELSE evaluate(CopyOf(r.tokens), <<>>)

AlikeKeeps == UNCHANGED <<heap, last, formula, tokens, given, pc, input, stack,
                          outcome, occurrences, groups, terms, scanVars>>

Called(call, rpn, value) ==
    /\ results[call].phase = "none"
    /\ results' = [results EXCEPT ![call] =
                       [phase |-> "done", rpn |-> rpn, value |-> value]]
    /\ AlikeKeeps

\* toRPN(formula)
RPNOfString ==
    /\ pc = "idle"
    /\ Called("toRPN(f)", toRPNString(formula), NoResult.value)

\* toRPN(tokenize(formula))
RPNOfTokens ==
    /\ pc = "idle"
    /\ Called("toRPN(tokenize(f))", toRPNTokenized(formula), NoResult.value)

\* evaluate(formula)
EvaluateOfString ==
    /\ pc = "idle"
    /\ Called("evaluate(f)", NoResult.rpn, evaluateString(formula))

\* evaluate(toRPN(formula))
EvaluateOfRPN ==
    /\ pc = "idle"
    /\ LET r == toRPNString(formula)
       IN  Called("evaluate(toRPN(f))", r, evaluateConverted(r))

\* evaluate(toRPN(tokenize(formula)))
EvaluateOfRPNOfTokens ==
    /\ pc = "idle"
    /\ LET r == toRPNTokenized(formula)
       IN  Called("evaluate(toRPN(tokenize(f)))", r, evaluateConverted(r))

\* the token sequence with every Join token replaced by an Add token
JoinAsAdd(q) ==
    [i \in 1..Len(q) |-> IF q[i].type = "Join" THEN Tok("Add") ELSE q[i]]

\* evaluate(toRPN(tokens)), tokens being tokenize(formula) with Add for Join
EvaluateJoinAsAdd ==
    /\ pc = "idle"
    /\ LET t == tokenize(formula)
           r == IF t.err THEN RPNThrown(t) ELSE toRPN(CopyOf(JoinAsAdd(t.tokens)))
       IN  Called("Add for Join", r, evaluateConverted(r))

InitAlike ==
    /\ heap = <<>>
    /\ last = NoCall
    /\ formula \in StringsUpTo(AlikeChars, MaxStr)
    /\ tokens = <<>> /\ given = "none" /\ pc = "idle"
    /\ input = <<>> /\ stack = <<>> /\ outcome = EvalThrown("", <<>>)
    /\ occurrences = <<>> /\ groups = NoGroups /\ terms = NoTerms
    /\ results = [c \in RPNCalls \cup EvaluateCalls \cup {"Add for Join"} |->
                    NoResult]
    /\ idx = 0 /\ parens = 0

NextAlike ==
    \/ RPNOfString \/ RPNOfTokens
    \/ EvaluateOfString \/ EvaluateOfRPN \/ EvaluateOfRPNOfTokens
    \/ EvaluateJoinAsAdd

SpecAlike == InitAlike /\ [][NextAlike]_vars


\* ------------------------------------------------------------------------
\* evaluate, called on two formulas joined by '+' and on the same two
\* formulas each in brackets, one after the other
\* ------------------------------------------------------------------------

\* the longest of the two formulas
MaxTerm == 3

JoinChars == {"H", "O", "2", "-"}

JoinCalls == {"f + g", "(f)(g)"}

\* "f + g"
Joined == terms.f \o <<" ", "+", " ">> \o terms.g

\* "(f)(g)"
Grouped == <<"(">> \o terms.f \o <<")", "(">> \o terms.g \o <<")">>

JoinKeeps == UNCHANGED <<heap, last, formula, tokens, given, pc, input, stack,
                         outcome, occurrences, groups, terms, scanVars>>

\* evaluate("f + g")
EvaluateJoined ==
    /\ results["f + g"].phase = "none"
    /\ results' = [results EXCEPT !["f + g"] =
                       [phase |-> "done", rpn |-> toRPNString(Joined),
                        value |-> evaluateString(Joined)]]
    /\ JoinKeeps

\* evaluate("(f)(g)")
EvaluateGrouped ==
    /\ results["(f)(g)"].phase = "none"
    /\ results' = [results EXCEPT !["(f)(g)"] =
                       [phase |-> "done", rpn |-> toRPNString(Grouped),
                        value |-> evaluateString(Grouped)]]
    /\ JoinKeeps

InitJoin ==
    /\ heap = <<>>
    /\ last = NoCall
    /\ formula = <<>> /\ tokens = <<>> /\ given = "none" /\ pc = "idle"
    /\ input = <<>> /\ stack = <<>> /\ outcome = EvalThrown("", <<>>)
    /\ occurrences = <<>> /\ groups = NoGroups
    /\ terms \in [f : StringsUpTo(JoinChars, MaxTerm),
                  g : StringsUpTo(JoinChars, MaxTerm)]
    /\ results = [c \in JoinCalls |-> NoResult]
    /\ idx = 0 /\ parens = 0

NextJoin == EvaluateJoined \/ EvaluateGrouped

SpecJoin == InitJoin /\ [][NextJoin]_vars


\* ------------------------------------------------------------------------
\* Additions and subtractions that cancel: m.addMut(a, f).subtractMut(a, f),
\* m.subtract(copy of m), m.subtractMut(m) and evaluate("X - X").  Object
\* This is m, object Other the copy of m the caller made before the calls.
\* ------------------------------------------------------------------------

CancelChars == {"H", "O", "2", "-", "(", ")"}

\* the formulas X: the short strings, and each of them in brackets
CancelFormulas ==
    LET short == StringsUpTo(CancelChars, MaxTerm)
    IN  short \cup {<<"(">> \o x \o <<")">> : x \in short}

\* "X - X"
Difference(x) == x \o <<" ", "-", " ">> \o x

CancelKeeps == UNCHANGED <<formula, tokens, input, stack, writerVars, scanVars>>

\* m.addMut(a, f), the first call of the chain
ChainAddMut ==
    /\ pc = "idle"
    /\ \E a \in MolAtoms, f \in FreqRange :
         LET r == addOrSubtractStatic(heap[This], FALSE, AtomArg(a, f), heap)
         IN  /\ heap' = [heap EXCEPT ![This] = r.m]
             /\ last' = Call("addMut", This, AtomArg(a, f), 0, r.err)
    /\ pc' = "added"
    /\ CancelKeeps /\ UNCHANGED <<given, outcome>>

\* .subtractMut(a, f), on the Molecule addMut returned
ChainSubtractMut ==
    /\ pc = "added" /\ ~last.threw
    /\ LET r == addOrSubtractStatic(heap[This], TRUE, last.arg, heap)
       IN  /\ heap' = [heap EXCEPT ![This] = r.m]
           /\ last' = Call("subtractMut", This, last.arg, 0, r.err)
    /\ pc' = "subtracted"
    /\ CancelKeeps /\ UNCHANGED <<given, outcome>>

\* m.subtract(copy of m)
SubtractCopy ==
    /\ pc = "idle"
    /\ LET c == MoleculeCopy(heap[This])
           r == addOrSubtractStatic(c.m, TRUE, MoleculeArg(Other), heap)
       IN  /\ heap' = [heap EXCEPT ![Result] = IF c.err THEN @ ELSE r.m]
           /\ last' = Call("subtract", Result, MoleculeArg(Other), 0,
                           c.err \/ r.err)
    /\ pc' = "subtracted"
    /\ CancelKeeps /\ UNCHANGED <<given, outcome>>

\* m.subtractMut(m)
SubtractSelf ==
    /\ pc = "idle"
    /\ LET r == addOrSubtractStatic(heap[This], TRUE, MoleculeArg(This), heap)
       IN  /\ heap' = [heap EXCEPT ![This] = r.m]
           /\ last' = Call("subtractMut", This, MoleculeArg(This), 0, r.err)
    /\ pc' = "subtracted"
    /\ CancelKeeps /\ UNCHANGED <<given, outcome>>

\* evaluate("X - X")
EvaluateDifference ==
    /\ pc = "idle"
    /\ outcome' = evaluateString(Difference(formula))
    /\ given' = "string"
    /\ pc' = IF outcome'.status = "ok" THEN "returned" ELSE "thrown"
    /\ CancelKeeps /\ UNCHANGED <<heap, last>>

InitCancel ==
    /\ heap \in [{This, Other, Result} -> FrameMolecules]
    /\ heap[Other] = heap[This]
    /\ heap[Result] = EmptyMolecule
    /\ last = NoCall
    /\ formula \in CancelFormulas
    /\ tokens = <<>> /\ given = "none" /\ pc = "idle"
    /\ input = <<>> /\ stack = <<>> /\ outcome = EvalThrown("", <<>>)
    /\ IdleWriter

NextCancel ==
    \/ ChainAddMut \/ ChainSubtractMut \/ SubtractCopy \/ SubtractSelf
    \/ EvaluateDifference

SpecCancel == InitCancel /\ [][NextCancel]_vars


\* ------------------------------------------------------------------------
\* tokenize and evaluate, called on a formula f and on the formula g that is
\* f with one more whitespace character
\* ------------------------------------------------------------------------

SpacedChars == {"H", "O", "a", "2", "(", ")", " "}

\* the string with a space after its first p characters
Spaced(x, p) == SubSeq(x, 1, p) \o <<" ">> \o SubSeq(x, p + 1, Len(x))

\* position p is between two digits, or between an uppercase letter and the
\* lowercase letter that follows it
Splits(x, p) ==
    /\ 1 <= p /\ p < Len(x)
    /\ \/ x[p] \in Digit /\ x[p + 1] \in Digit
       \/ x[p] \in Upper /\ x[p + 1] \in Lower

SpacedKeeps == UNCHANGED <<heap, last, formula, tokens, given, pc, input, stack,
                           outcome, occurrences, groups, terms, scanVars>>

\* tokenize(f) or tokenize(g)
TokenizeSpaced ==
    /\ \E c \in {"f", "g"} :
         /\ results[c].phase = "none"
         /\ results' = [results EXCEPT ![c].phase = "tokenized",
                                       ![c].tokens = tokenize(terms[c])]
    /\ SpacedKeeps

\* evaluate(f) or evaluate(g)
EvaluateSpaced ==
    /\ \E c \in {"f", "g"} :
         /\ results[c].phase = "tokenized"
         /\ results' = [results EXCEPT ![c].phase = "evaluated",
                                       ![c].value = evaluateString(terms[c])]
    /\ SpacedKeeps

InitSpaced ==
    /\ heap = <<>>
    /\ last = NoCall
    /\ formula = <<>> /\ tokens = <<>> /\ given = "none" /\ pc = "idle"
    /\ input = <<>> /\ stack = <<>> /\ outcome = EvalThrown("", <<>>)
    /\ occurrences = <<>> /\ groups = NoGroups
    /\ \E x \in StringsUpTo(SpacedChars, MaxStr) :
         \E p \in 0..Len(x) :
           /\ ~Splits(x, p)
           /\ terms = [f |-> x, g |-> Spaced(x, p)]
    /\ results = [c \in {"f", "g"} |->
                    [phase |-> "none", tokens |-> Tokenized(<<>>),
                     value |-> EvalThrown("", <<>>)]]
    /\ idx = 0 /\ parens = 0

NextSpaced == TokenizeSpaced \/ EvaluateSpaced

SpecSpaced == InitSpaced /\ [][NextSpaced]_vars


\* ------------------------------------------------------------------------
\* Properties of the Molecule methods
\* ------------------------------------------------------------------------

\* no entry of the Molecule has frequency 0
NoZero(m) == \A e \in m : e[2] # 0

\* the atom-by-atom difference (sign -1) or sum (sign 1) of two Molecules, an
\* absent atom counting as 0 and an atom whose result is 0 being absent
Combine(l, sign, r) ==
    {e \in {<<a, GetOrZero(l, a) + sign * GetOrZero(r, a)>> :
               a \in MapKeys(l) \cup MapKeys(r)} : e[2] # 0}

\* C2: after any sequence of Molecule operations starting from empty
\* Molecules, no atom is stored with frequency 0.
C2_NoZeroStored == \A i \in Objects : NoZero(heap[i])

\* C3: subtracting a Molecule rhs from a Molecule lhs, both with nonzero
\* frequencies of either sign, yields the Molecule whose frequency for each
\* atom is lhs's minus rhs's, exactly the atoms whose difference is 0 absent.
C3_SubtractIsDifference ==
    [][(/\ last'.op \in {"subtract", "subtractMut"}
        /\ ~last'.arg.isString
        /\ ~last'.threw
        /\ NoZero(heap[This])
        /\ NoZero(heap[last'.arg.ref]))
       => heap'[last'.dest] = Combine(heap[This], -1, heap[last'.arg.ref])]_vars


\* ------------------------------------------------------------------------
\* Properties of evaluate
\* ------------------------------------------------------------------------

\* the Molecule an operand stands for: an Atom counts as frequency 1
OperandValue(x, h) ==
    IF x.type = "Molecule" THEN h[x.ref] ELSE {<<x.atom, 1>>}

\* the loop is about to apply one of the operators ops to two operands
AtOperator(ops) ==
    /\ pc = "run" /\ input # <<>>
    /\ Head(input).type \in ops
    /\ Len(stack) >= 2

\* the operands the operator is about to pop
Lhs == stack[Len(stack) - 1]
Rhs == stack[Len(stack)]

\* the step has pushed a Molecule object of value m and carries on
PushedMolecule(m) ==
    /\ pc' = "run"
    /\ Len(stack') = Len(stack) - 1
    /\ stack'[Len(stack')].type = "Molecule"
    /\ heap'[stack'[Len(stack')].ref] = m

\* C4: for operands lhs and rhs that are Atoms or Molecules, Add and Join
\* yield the Molecule whose frequency for each atom is the sum of lhs's and
\* rhs's frequencies (an Atom counting as 1, an absent atom as 0), an atom
\* whose sum is 0 being absent from the result.
C4_AddIsSum ==
    [][(/\ AtOperator({"Add", "Join"})
        /\ IsAtomOrMolecule(Lhs) /\ IsAtomOrMolecule(Rhs)
        /\ NoZero(OperandValue(Lhs, heap)) /\ NoZero(OperandValue(Rhs, heap)))
       => PushedMolecule(Combine(OperandValue(Lhs, heap), 1,
                                 OperandValue(Rhs, heap)))]_vars

\* res has exactly the atoms of x, each with x's frequency multiplied by n
ExactlyScaled(res, x, n) ==
    /\ MapKeys(res) = MapKeys(x)
    /\ Cardinality(res) = Cardinality(x)
    /\ \A a \in MapKeys(x) : MapGet(res, a) = n * MapGet(x, a)

\* C5: Subscript applied to (lhs = Atom or Molecule X, rhs = Number n) and
\* Coefficient applied to (lhs = Number n, rhs = Atom or Molecule X) push a
\* Molecule that has exactly X's atoms, each with X's frequency times n.
C5_ScaledByNumber ==
    [][/\ (AtOperator({"Subscript"}) /\ IsAtomOrMolecule(Lhs) /\ Rhs.type = "Number")
          => /\ pc' = "run"
             /\ stack'[Len(stack')].type = "Molecule"
             /\ ExactlyScaled(heap'[stack'[Len(stack')].ref],
                              OperandValue(Lhs, heap), Rhs.num)
       /\ (AtOperator({"Coefficient"}) /\ Lhs.type = "Number" /\ IsAtomOrMolecule(Rhs))
          => /\ pc' = "run"
             /\ stack'[Len(stack')].type = "Molecule"
             /\ ExactlyScaled(heap'[stack'[Len(stack')].ref],
                              OperandValue(Rhs, heap), Lhs.num)]_vars

\* a Coefficient has multiplied a Molecule of two atoms by 2
C5_Witness ==
    /\ pc = "returned" /\ given = "tokens" /\ Len(tokens) = 3
    /\ tokens[1] = NumberToken(2)
    /\ tokens[2].type = "Molecule"
    /\ tokens[3].type = "Coefficient"
    /\ outcome.kind = "Molecule"
    /\ outcome.mol = Mol2(<<"H">>, 2, <<"O">>, -4)

\* the operand rule of the three operators of C6
C6_Passes(lhs, rhs, op) ==
    \/ op = "Add" /\ IsAtomOrMolecule(lhs) /\ IsAtomOrMolecule(rhs)
    \/ op = "Subscript" /\ IsAtomOrMolecule(lhs) /\ rhs.type = "Number"
    \/ op = "Coefficient" /\ lhs.type = "Number" /\ IsAtomOrMolecule(rhs)

\* C6: for every pair (lhs, rhs) drawn from all token kinds and a Molecule,
\* and op one of Add, Subscript, Coefficient, evaluate of [lhs, rhs, op]
\* returns without error if and only if op's operand rule holds of lhs and
\* rhs, and fails in every other case.
C6_OperandValidity ==
    (/\ given = "tokens" /\ Len(tokens) = 3
     /\ tokens[3].type \in {"Add", "Subscript", "Coefficient"}
     /\ pc \in {"returned", "thrown"})
    => (pc = "returned" <=> C6_Passes(tokens[1], tokens[2], tokens[3].type))

\* evaluate has returned for [Number, Atom, Coefficient]
C6_Witness ==
    /\ pc = "returned" /\ given = "tokens" /\ Len(tokens) = 3
    /\ tokens[1].type = "Number"
    /\ tokens[2].type = "Atom"
    /\ tokens[3].type = "Coefficient"

\* the contract of each operator on the types of its operands
C7_ContractHolds(op, lhs, rhs) ==
    IF op = "Subscript" THEN IsAtomOrMolecule(lhs) /\ rhs.type = "Number"
    ELSE IF op = "Coefficient" THEN lhs.type = "Number" /\ IsAtomOrMolecule(rhs)
    ELSE IsAtomOrMolecule(lhs) /\ IsAtomOrMolecule(rhs)

\* C7: when evaluate pops two operands whose types do not satisfy the
\* operator's contract, it raises an InvalidOperationError.
C7_InvalidOperationError ==
    [][(/\ AtOperator({"Add", "Subtract", "Coefficient", "Subscript", "Join"})
        /\ ~C7_ContractHolds(Head(input).type, Lhs, Rhs))
       => (pc' = "thrown" /\ outcome'.error = "InvalidOperationError")]_vars

\* C8: evaluate fails on an empty token sequence, on the empty string and on
\* any string that tokenizes to no token, and it fails whenever a binary
\* operator is reached while fewer than two operands are on the stack.
C8_FailsWithoutOperands ==
    [][/\ (pc = "build" /\ given' = "tokens" /\ tokens = <<>>) => pc' = "thrown"
       /\ (pc = "build" /\ given' = "string" /\ ~tokenize(formula).err
             /\ tokenize(formula).tokens = <<>>) => pc' = "thrown"
       /\ (pc = "run" /\ input # <<>>
             /\ Head(input).type \in {"Add", "Subtract", "Coefficient",
                                      "Subscript", "Join"}
             /\ Len(stack) < 2) => pc' = "thrown"]_vars

\* evaluate has failed on a string of white space only
C8_Witness ==
    /\ pc = "thrown" /\ given = "string"
    /\ Len(formula) >= 1
    /\ \A i \in 1..Len(formula) : formula[i] \in Space
    /\ outcome.error = "Error"

\* C9: a value evaluate returns is a Molecule or a number, and a Molecule
\* when the input was a formula string; never an atom symbol.
C9_ReturnsMoleculeOrNumber ==
    pc = "returned"
    => /\ outcome.kind \in {"Molecule", "number"}
       /\ given = "string" => outcome.kind = "Molecule"


\* ------------------------------------------------------------------------
\* Properties of evaluate on written formulas
\* ------------------------------------------------------------------------

\* the sum of the multipliers of atom a over the occurrences occs
RECURSIVE SumOf(_, _)
SumOf(a, occs) ==
    IF occs = <<>> THEN 0
    ELSE (IF Head(occs).atom = a THEN Head(occs).mult ELSE 0) + SumOf(a, Tail(occs))

\* each atom written, with the sum over its occurrences of the product of
\* the subscripts and coefficients that apply to the occurrence
WrittenMolecule ==
    {<<occurrences[i].atom, SumOf(occurrences[i].atom, occurrences)>> :
        i \in DOMAIN occurrences}

\* the formula holds an operator: a subscript, a coefficient, or the implicit
\* addition between two atoms
HasOperator ==
    \/ Len(occurrences) >= 2
    \/ \E i \in DOMAIN formula : formula[i] \in Digit

\* C1: for every formula built only from atom symbols, positive subscripts,
\* positive coefficients at the start of the formula or of a group, balanced
\* non-empty groups and juxtaposition, and holding at least one operator,
\* evaluate returns the Molecule in which each atom's frequency is the sum,
\* over its occurrences, of the product of the subscripts and coefficients
\* that apply to the occurrence.
C1_FormulaValue ==
    (pc \in {"returned", "thrown"} /\ given = "string" /\ Complete /\ HasOperator)
    => /\ pc = "returned"
       /\ outcome.kind = "Molecule"
       /\ outcome.mol = WrittenMolecule

\* evaluate("2(H2O)2") has returned H:8, O:4
C1_Witness ==
    /\ pc = "returned" /\ given = "string"
    /\ formula = <<"2", "(", "H", "2", "O", ")", "2">>
    /\ outcome.mol = Mol2(<<"H">>, 8, <<"O">>, 4)


\* ------------------------------------------------------------------------
\* Properties of toRPN and evaluate on joined sub-formulas
\* ------------------------------------------------------------------------

\* two outcomes of evaluate are the same value
SameValue(x, y) ==
    /\ x.status = y.status /\ x.kind = y.kind
    /\ x.mol = y.mol /\ x.num = y.num /\ x.atom = y.atom

\* C10: Subtract and Join are left-associative: for sub-formulas A, B, C and
\* any two of '+' and '-' between them, toRPN of "A o1 B o2 C" is the postfix
\* sequence of "(A o1 B) o2 C", so evaluate gives the same value for both;
\* the postfix sequence is not that of "A o1 (B o2 C)", and for "A - B o2 C"
\* the value is not that of "A - (B o2 C)" (no sub-formula drawn is empty of
\* atoms, so the two groupings differ by twice C).
C10_LeftAssociative ==
    LET flat == results["flat"]
        left == results["left"]
        right == results["right"]
    IN  /\ (flat.phase # "none" /\ left.phase # "none")
           => (flat.rpn.status = "ok" /\ flat.rpn = left.rpn)
        /\ (flat.phase = "value" /\ left.phase = "value")
           => (flat.value.status = "ok" /\ SameValue(flat.value, left.value))
        /\ (flat.phase # "none" /\ right.phase # "none")
           => flat.rpn # right.rpn
        /\ (flat.phase = "value" /\ right.phase = "value" /\ terms.o1 = "-")
           => ~SameValue(flat.value, right.value)


\* ------------------------------------------------------------------------
\* Properties of one call of a Molecule method
\* ------------------------------------------------------------------------

\* the state of a Molecule of value m after the mutating form of the
\* non-mutating method op, the Molecule objects being those of h
AfterMutating(op, m, arg, mult, h) ==
    CASE op = "add" -> addOrSubtractStatic(m, FALSE, arg, h).m
      [] op = "subtract" -> addOrSubtractStatic(m, TRUE, arg, h).m
      [] op = "multiply" -> MultiplyStatic(m, mult)
      [] op = "negate" -> MultiplyStatic(m, -1)

NonMutating == {"add", "subtract", "multiply", "negate"}

\* C11: the value a non-mutating operation (add, subtract, multiply, negate)
\* returns equals the state of a copy of the receiver after the mutating
\* operation with the same argument.
C11_SameAsMutating ==
    [][last'.op \in NonMutating
       => /\ ~last'.threw
          /\ heap'[Result] = AfterMutating(last'.op, heap[This], last'.arg,
                                           last'.mult, heap)]_vars

\* subtract has returned a Molecule of two atoms for a Molecule argument
C11_Witness ==
    /\ last.op = "subtract" /\ ~last.arg.isString /\ last.arg.ref = Other
    /\ heap[This] = Mol1(<<"H">>, 1)
    /\ heap[Other] = Mol1(<<"O">>, 1)
    /\ heap[Result] = Mol2(<<"H">>, 1, <<"O">>, -1)


Mutating == {"addMut", "subtractMut", "multiplyMut", "negateMut"}

\* C12: add, subtract, multiply and negate leave the receiver and the
\* Molecule argument unchanged; each mutating form changes only its receiver
\* and never a Molecule argument that is a different object.
C12_OnlyReceiverChanges ==
    [][/\ last'.op \in NonMutating
          => (heap'[This] = heap[This] /\ heap'[Other] = heap[Other])
       /\ last'.op \in Mutating
          => (heap'[Other] = heap[Other] /\ heap'[Result] = heap[Result])]_vars

\* addMut has changed the receiver, its argument being the other Molecule
C12_Witness ==
    /\ last.op = "addMut" /\ ~last.arg.isString /\ last.arg.ref = Other
    /\ heap[Other] = Mol1(<<"O">>, 1)
    /\ heap[This] = Mol2(<<"H">>, 1, <<"O">>, 1)


\* ------------------------------------------------------------------------
\* Properties of the keys of a Molecule
\* ------------------------------------------------------------------------

\* one uppercase letter, optionally followed by one lowercase letter
IsAtomSymbol(k) ==
    /\ Len(k) \in {1, 2}
    /\ k[1] \in Upper
    /\ Len(k) = 2 => k[2] \in Lower

\* C13: every key accepted by Molecule.set and by each Molecule constructor
\* is one uppercase letter optionally followed by one lowercase letter; any
\* other string is rejected with an error and the Molecule is left without
\* that key.
C13_KeysAreAtomSymbols ==
    /\ \A i \in Objects : \A k \in MapKeys(heap[i]) : IsAtomSymbol(k)
    /\ (last.op \in {"set", "newAtom", "newPairs"} /\ ~IsAtomSymbol(last.arg.atom))
       => last.threw


\* ------------------------------------------------------------------------
\* Properties of tokenize
\* ------------------------------------------------------------------------

\* tokenize has thrown a MalformedFormulaError of index i and returns nothing
MalformedAt(i) ==
    /\ pc' = "thrown"
    /\ outcome'.kind = "MalformedFormulaError"
    /\ outcome'.index = i
    /\ outcome'.tokens = <<>>

\* C14: when tokenize reaches a ')' while the count of '(' not yet closed is
\* zero, it fails with a MalformedFormulaError whose index is the position of
\* that ')'; otherwise it emits GroupRight and the count decreases by one, so
\* the count is never negative.
C14_RightBracket ==
    [][/\ (pc = "scan" /\ CharAt(formula, idx) = ")")
          => IF parens = 0
             THEN MalformedAt(idx)
             ELSE /\ pc' = "scan"
                  /\ tokens' = Append(tokens, Tok("GroupRight"))
                  /\ parens' = parens - 1
       /\ parens' >= 0]_vars

\* tokenize("(H))") has failed at index 3
C14_Witness ==
    /\ formula = <<"(", "H", ")", ")">>
    /\ pc = "thrown"
    /\ outcome.msg = "Unmatched right bracket"
    /\ outcome.index = 3
    /\ tokens = <<Tok("GroupLeft"), AtomToken(<<"H">>), Tok("GroupRight")>>


\* the tokens of type t among the first n of ts
CountOf(ts, t, n) == Cardinality({i \in 1..n : ts[i].type = t})

\* every prefix has at least as many GroupLeft as GroupRight, and the totals
\* are equal
Balanced(ts) ==
    /\ \A n \in 1..Len(ts) : CountOf(ts, "GroupLeft", n) >= CountOf(ts, "GroupRight", n)
    /\ CountOf(ts, "GroupLeft", Len(ts)) = CountOf(ts, "GroupRight", Len(ts))

\* C15: when tokenize has scanned the whole input without another error and
\* a '(' is still unclosed, it fails with a MalformedFormulaError whose index
\* is the length of the input; every token sequence tokenize returns has
\* balanced parentheses.
C15_LeftBracket ==
    [][/\ (pc = "scan" /\ CharAt(formula, idx) = "" /\ parens # 0)
          => MalformedAt(Len(formula))
       /\ pc' = "tokenized"
          => (outcome'.tokens = tokens /\ Balanced(outcome'.tokens))]_vars

\* tokenize("(H") has failed at index 2
C15_Witness ==
    /\ formula = <<"(", "H">>
    /\ pc = "thrown"
    /\ outcome.msg = "Unmatched left bracket"
    /\ outcome.index = 2

\* C16: when tokenize meets a character that is not a digit, an uppercase
\* letter, '(', ')', '+', '-' or whitespace (a lowercase letter that does not
\* directly follow an uppercase letter included), it fails with a
\* MalformedFormulaError whose index is the position of that character, and
\* returns no tokens.
C16_UnknownCharacter ==
    [][(/\ pc = "scan"
        /\ CharAt(formula, idx) \in (ScanChars \ {"H", "2", "(", ")", "+", "-", " "}))
       => MalformedAt(idx)]_vars

\* tokenize("H2a") has failed at the lowercase letter, index 2
C16_Witness ==
    /\ formula = <<"H", "2", "a">>
    /\ pc = "thrown"
    /\ outcome.msg = "Unexpected token"
    /\ outcome.index = 2


\* ------------------------------------------------------------------------
\* Properties of toRPN
\* ------------------------------------------------------------------------

\* how many times the token x stands in the sequence ts
Times(ts, x) == Cardinality({i \in DOMAIN ts : ts[i] = x})

IsGroupToken(x) == x.type \in {"GroupLeft", "GroupRight"}

\* C17: for every formula tokenize accepts, toRPN(tokenize(f)) holds exactly
\* the tokens of tokenize(f) other than GroupLeft and GroupRight, each the
\* same number of times, and no GroupLeft or GroupRight.
C17_TokensConserved ==
    pc = "converted"
    => /\ outcome.status = "ok"
       /\ \A i \in DOMAIN outcome.tokens : ~IsGroupToken(outcome.tokens[i])
       /\ \A i \in DOMAIN tokens :
            ~IsGroupToken(tokens[i])
            => Times(outcome.tokens, tokens[i]) = Times(tokens, tokens[i])
       /\ \A i \in DOMAIN outcome.tokens :
            Times(outcome.tokens, outcome.tokens[i]) = Times(tokens, outcome.tokens[i])

\* toRPN(tokenize("(HH)2")) is H H Add 2 Subscript
C17_Witness ==
    /\ pc = "converted"
    /\ formula = <<"(", "H", "H", ")", "2">>
    /\ outcome.tokens = <<AtomToken(<<"H">>), AtomToken(<<"H">>), Tok("Add"),
                          NumberToken(2), Tok("Subscript")>>


\* C18: toRPN never fails on its own: for every token sequence given to it,
\* a GroupRight without its GroupLeft or a GroupLeft never closed included,
\* toRPN terminates and returns a token sequence without raising an error.
C18_ToRPNReturns ==
    pc # "build" => (pc = "converted" /\ outcome.status = "ok")


\* two outcomes of evaluate are the same: the same value returned, or the
\* same error thrown
SameOutcome(x, y) == SameValue(x, y) /\ x.error = y.error

\* C19: for every formula string f, toRPN(f) equals toRPN(tokenize(f)), and
\* evaluate(f) has the same outcome (equal value, or failure) as
\* evaluate(toRPN(f)) and as evaluate(toRPN(tokenize(f))).
C19_StringsAndTokensAlike ==
    /\ \A c \in RPNCalls, d \in RPNCalls :
         (results[c].phase = "done" /\ results[d].phase = "done")
             => results[c].rpn = results[d].rpn
    /\ \A c \in EvaluateCalls, d \in EvaluateCalls :
         (results[c].phase = "done" /\ results[d].phase = "done")
             => SameOutcome(results[c].value, results[d].value)

\* every call was made on a formula with a group and a count, and evaluate
\* returned a Molecule
C19_Witness ==
    /\ \A c \in RPNCalls \cup EvaluateCalls : results[c].phase = "done"
    /\ results["toRPN(f)"].rpn.status = "ok"
    /\ Len(results["toRPN(f)"].rpn.tokens) >= 3
    /\ results["evaluate(f)"].value.status = "ok"
    /\ results["evaluate(f)"].value.kind = "Molecule"
    /\ \E i \in DOMAIN formula : formula[i] = "("


\* evaluate(f) returns a Molecule
EvaluatesToMolecule(f) ==
    LET v == evaluateString(f) IN v.status = "ok" /\ v.kind = "Molecule"

\* C20: for all formulas f and g that evaluate to Molecules (those that start
\* with a coefficient or contain '-' included), evaluate("f + g") equals
\* evaluate("(f)(g)").
C20_JoinIsGrouping ==
    ( /\ \A c \in JoinCalls : results[c].phase = "done"
      /\ EvaluatesToMolecule(terms.f) /\ EvaluatesToMolecule(terms.g) )
        => SameOutcome(results["f + g"].value, results["(f)(g)"].value)


\* ------------------------------------------------------------------------
\* Properties of additions and subtractions that cancel
\* ------------------------------------------------------------------------

\* the chain m.addMut(a, f).subtractMut(a, f) has returned
ChainDone == pc = "subtracted" /\ last.op = "subtractMut" /\ last.arg.isString

\* C21 as stated: for every Molecule m, every atom a and every integer
\* frequency f, after m.addMut(a, f).subtractMut(a, f) the Molecule m has no
\* entry for a.
C21_NoEntryAfterChain ==
    ChainDone => ~MapHas(heap[This], last.arg.atom)

\* C21 amended: for every Molecule m that has no entry for a, after
\* m.addMut(a, f).subtractMut(a, f) the Molecule m has no entry for a.
C21_NoEntryLeftBehind ==
    (ChainDone /\ ~MapHas(heap[Other], last.arg.atom))
        => ~MapHas(heap[This], last.arg.atom)

\* the chain ran on a Molecule with another atom and no entry for a, with a
\* frequency that is not 0
C21_Witness ==
    /\ ChainDone /\ last.arg.freq # 0
    /\ ~MapHas(heap[Other], last.arg.atom)
    /\ heap[Other] # EmptyMolecule


\* evaluate(x) returns a Molecule or the symbol of a single atom
EvaluatesToMoleculeOrAtom(x) ==
    LET v == evaluateString(x) IN v.status = "ok" /\ v.kind \in {"Molecule", "atom"}

\* m.subtract(copy of m) and m.subtractMut(m) leave no entry
SelfDifferenceEmpty ==
    /\ (pc = "subtracted" /\ last.op = "subtract")
         => (~last.threw /\ heap[Result] = EmptyMolecule)
    /\ (pc = "subtracted" /\ last.op = "subtractMut" /\ ~last.arg.isString)
         => (~last.threw /\ heap[This] = EmptyMolecule)

\* evaluate("X - X") has returned a Molecule with no entries
DifferenceEmpty ==
    /\ pc = "returned"
    /\ outcome.kind = "Molecule" /\ outcome.mol = EmptyMolecule

\* C22 as stated: for every Molecule m, m.subtract(copy of m) and
\* m.subtractMut(m) have size 0, and for every formula X that evaluates to a
\* Molecule or is a single atom, evaluate("X - X") is a Molecule with no
\* entries.
C22_DifferenceWithItself ==
    /\ SelfDifferenceEmpty
    /\ (given = "string" /\ EvaluatesToMoleculeOrAtom(formula)) => DifferenceEmpty

\* no '+' and no '-' of the formula is outside brackets
RECURSIVE NoOperatorOutside(_, _)
NoOperatorOutside(x, depth) ==
    IF x = <<>> THEN TRUE
    ELSE IF Head(x) = "(" THEN NoOperatorOutside(Tail(x), depth + 1)
    ELSE IF Head(x) = ")" THEN NoOperatorOutside(Tail(x), depth - 1)
    ELSE IF Head(x) \in {"+", "-"} /\ depth = 0 THEN FALSE
    ELSE NoOperatorOutside(Tail(x), depth)

\* C22 amended: for every Molecule m, m.subtract(copy of m) and
\* m.subtractMut(m) have size 0, and for every formula X that evaluates to a
\* Molecule or is a single atom and has no '+' or '-' outside brackets,
\* evaluate("X - X") is a Molecule with no entries.
C22_DifferenceOfOperands ==
    /\ SelfDifferenceEmpty
    /\ ( /\ given = "string" /\ EvaluatesToMoleculeOrAtom(formula)
         /\ NoOperatorOutside(formula, 0) )
           => DifferenceEmpty

\* evaluate("X - X") returned for an X that is a difference in brackets, the
\* Molecule m having two atoms
C22_Witness ==
    /\ given = "string" /\ pc = "returned"
    /\ EvaluatesToMoleculeOrAtom(formula) /\ NoOperatorOutside(formula, 0)
    /\ \E i \in DOMAIN formula : formula[i] = "-"
    /\ Cardinality(heap[This]) = 2


\* ------------------------------------------------------------------------
\* Properties of evaluate on the caller's token sequence
\* ------------------------------------------------------------------------

\* the Molecule objects the caller's token sequence holds
HeldByCaller == {tokens[i].ref : i \in {j \in DOMAIN tokens : tokens[j].type = "Molecule"}}

\* C23: evaluate and toRPN are pure with respect to their token-sequence
\* argument: no step of evaluate(tokens) changes the caller's sequence or the
\* atoms and frequencies of a Molecule contained in it.
C23_ArgumentUntouched ==
    [][given = "tokens" =>
         /\ tokens' = tokens
         /\ \A i \in HeldByCaller : heap'[i] = heap[i]]_vars


\* C24: evaluate returns a value only if exactly one operand remains on the
\* operand stack when the input is exhausted: a sequence that leaves two or
\* more operands, or none, does not yield a result.
C24_OneOperandRemains ==
    pc = "returned" => (outcome.status = "ok" /\ outcome.left = 0)


\* C25: every Molecule that evaluate returns for a formula string has no atom
\* with frequency 0, formulas with a subscript or coefficient of 0 and
\* formulas whose additions and subtractions cancel included.
C25_NoZeroReturned ==
    LET v == results["evaluate(f)"].value
    IN  (results["evaluate(f)"].phase = "done" /\ v.status = "ok"
            /\ v.kind = "Molecule")
        => NoZero(v.mol)


\* ------------------------------------------------------------------------
\* Properties of the tokens tokenize emits
\* ------------------------------------------------------------------------

\* the tokens the step emits
Emitted == SubSeq(tokens', Len(tokens) + 1, Len(tokens'))

\* the index after the maximal run of digits that starts at idx
RunEnd ==
    CHOOSE j \in idx..Len(formula) :
        /\ \A k \in idx..(j - 1) : CharAt(formula, k) \in Digit
        /\ CharAt(formula, j) \notin Digit

\* the decimal value of the digits, read from the left
RECURSIVE Horner(_, _)
Horner(ds, acc) ==
    IF ds = <<>> THEN acc ELSE Horner(Tail(ds), 10 * acc + DigitVal(Head(ds)))

RunValue == Horner(SubSeq(formula, idx + 1, RunEnd), 0)

\* the loop is at the first digit of a run
AtDigitRun == pc = "scan" /\ CharAt(formula, idx) \in Digit

\* C26: a digit run that starts when no token has been emitted yet, or when
\* the last emitted token is GroupLeft, Join or Subtract, emits Number(n)
\* followed by Coefficient, n being the decimal value of the whole maximal run
\* of consecutive digits.
C26_CoefficientRun ==
    [][(AtDigitRun /\ LastType(tokens) \in {"", "GroupLeft", "Join", "Subtract"})
       => /\ pc' = "scan"
          /\ Emitted = <<NumberToken(RunValue), Tok("Coefficient")>>
          /\ idx' = RunEnd]_vars

\* tokenize("(22H)") has emitted Number(22) and Coefficient after the GroupLeft
C26_Witness ==
    /\ formula = <<"(", "2", "2", "H", ")">>
    /\ pc = "tokenized"
    /\ SubSeq(tokens, 1, 3) = <<Tok("GroupLeft"), NumberToken(22), Tok("Coefficient")>>

\* C27: a digit run that starts when the last emitted token is Atom,
\* GroupRight or Number emits Subscript followed by Number(n); two digit runs
\* separated only by whitespace after an atom or group stack as nested
\* subscripts, so that evaluate("H2 2") equals evaluate("H4").
C27_SubscriptRun ==
    [][/\ (AtDigitRun /\ LastType(tokens) \in {"Atom", "GroupRight", "Number"})
          => /\ pc' = "scan"
             /\ Emitted = <<Tok("Subscript"), NumberToken(RunValue)>>
             /\ idx' = RunEnd
       /\ SameValue(evaluateString(<<"H", "2", " ", "2">>),
                    evaluateString(<<"H", "4">>))]_vars

\* tokenize("H2 22") has emitted Atom, Subscript, Number(2), Subscript,
\* Number(22)
C27_Witness ==
    /\ formula = <<"H", "2", " ", "2", "2">>
    /\ pc = "tokenized"
    /\ tokens = <<AtomToken(<<"H">>), Tok("Subscript"), NumberToken(2),
                  Tok("Subscript"), NumberToken(22)>>

\* C28: tokenize inserts an implicit Add immediately before an Atom or a
\* GroupLeft exactly when the last emitted token is Number, Atom or
\* GroupRight, and none when no token has been emitted or the last emitted
\* token is GroupLeft, Coefficient, Join or Subtract; Add is emitted in no
\* other situation.
C28_ImplicitAdd ==
    [][pc = "scan" =>
         IF CharAt(formula, idx) \in Upper \cup {"("}
         THEN LET n == Len(Emitted)
              IN  /\ n >= 1
                  /\ Emitted[n].type \in {"Atom", "GroupLeft"}
                  /\ IF LastType(tokens) \in {"Number", "Atom", "GroupRight"}
                     THEN n = 2 /\ Emitted[1] = Tok("Add")
                     ELSE /\ n = 1
                          /\ LastType(tokens) \in
                               {"", "GroupLeft", "Coefficient", "Join", "Subtract"}
         ELSE \A i \in DOMAIN Emitted : Emitted[i].type # "Add"]_vars

\* tokenize("H(H)H") has emitted an Add after the Atom and one after the
\* GroupRight, and none after the GroupLeft
C28_Witness ==
    /\ formula = <<"H", "(", "H", ")", "H">>
    /\ pc = "tokenized"
    /\ tokens = <<AtomToken(<<"H">>), Tok("Add"), Tok("GroupLeft"),
                  AtomToken(<<"H">>), Tok("GroupRight"), Tok("Add"),
                  AtomToken(<<"H">>)>>

\* C29: an uppercase letter directly followed by a lowercase letter yields one
\* Atom token with the two-character symbol and consumes both characters; an
\* uppercase letter followed by anything else yields an Atom with the
\* one-character symbol and consumes one character; every Atom token emitted
\* carries a valid atom symbol.
C29_AtomSymbol ==
    [][/\ (pc = "scan" /\ CharAt(formula, idx) \in Upper)
          => /\ pc' = "scan"
             /\ LET n == Len(Emitted)
                    two == CharAt(formula, idx + 1) \in
                             {"a", "b", "c", "d", "e", "f", "g", "h", "i", "j",
                              "k", "l", "m", "n", "o", "p", "q", "r", "s", "t",
                              "u", "v", "w", "x", "y", "z"}
                IN  /\ n >= 1
                    /\ \A i \in 1..(n - 1) : Emitted[i].type # "Atom"
                    /\ Emitted[n] =
                         AtomToken(IF two
                                   THEN <<CharAt(formula, idx), CharAt(formula, idx + 1)>>
                                   ELSE <<CharAt(formula, idx)>>)
                    /\ idx' = idx + (IF two THEN 2 ELSE 1)
       /\ \A i \in DOMAIN tokens' :
            tokens'[i].type = "Atom" => IsAtomSymbol(tokens'[i].atom)]_vars

\* tokenize("HaH") has emitted the atoms Ha and H
C29_Witness ==
    /\ formula = <<"H", "a", "H">>
    /\ pc = "tokenized"
    /\ tokens = <<AtomToken(<<"H", "a">>), Tok("Add"), AtomToken(<<"H">>)>>

\* C30: a number that directly follows a coefficient number, with only
\* whitespace between them, is rejected: tokenize fails with a
\* MalformedFormulaError whose message names the previous token kind, and so
\* does evaluate on that string.  Coefficient is the only last-token kind that
\* can make a digit run fail.
C30_NumberAfterCoefficient ==
    [][AtDigitRun =>
         IF LastType(tokens) = "Coefficient"
         THEN /\ pc' = "thrown"
              /\ outcome'.kind = "MalformedFormulaError"
              /\ outcome'.msg = "Unexpected number after"
              /\ outcome'.prev = "Coefficient"
              /\ outcome'.tokens = <<>>
              /\ evaluateString(formula).status = "throw"
              /\ evaluateString(formula).error = "MalformedFormulaError"
         ELSE pc' = "scan"]_vars

\* tokenize("2 2H") has failed at its second number
C30_Witness ==
    /\ formula = <<"2", " ", "2", "H">>
    /\ pc = "thrown"
    /\ outcome.msg = "Unexpected number after"
    /\ outcome.prev = "Coefficient"


\* C31: every MalformedFormulaError raised by tokenize carries the index of
\* the offending character: for a number that appears where the grammar
\* forbids it, the index lies inside that number's digit run (at or after its
\* first digit and at or before its last digit).
C31_IndexInsideRun ==
    [][(AtDigitRun /\ pc' = "thrown")
       => /\ outcome'.kind = "MalformedFormulaError"
          /\ idx <= outcome'.index
          /\ outcome'.index <= RunEnd - 1]_vars


\* C32: whitespace emits no token: inserting or deleting whitespace at any
\* position of a formula that is not between two digits and not between an
\* uppercase letter and the lowercase letter that directly follows it leaves
\* tokenize's output unchanged (the same tokens, or the same kind of failure),
\* so evaluate gives equal results: evaluate("H2 O") equals evaluate("H 2O")
\* and both equal evaluate("H2O").
C32_WhitespaceIgnored ==
    LET f == results["f"]
        g == results["g"]
    IN  /\ (f.phase # "none" /\ g.phase # "none")
           => /\ f.tokens.err = g.tokens.err
              /\ f.tokens.tokens = g.tokens.tokens
              /\ f.tokens.kind = g.tokens.kind
              /\ f.tokens.msg = g.tokens.msg
              /\ f.tokens.prev = g.tokens.prev
        /\ (f.phase = "evaluated" /\ g.phase = "evaluated")
           => SameOutcome(f.value, g.value)

\* evaluate("H2O") and evaluate("H 2O") have returned H:2, O:1
C32_Witness ==
    /\ terms.f = <<"H", "2", "O">>
    /\ terms.g = <<"H", " ", "2", "O">>
    /\ results["f"].phase = "evaluated" /\ results["g"].phase = "evaluated"
    /\ results["g"].value.mol = Mol2(<<"H">>, 2, <<"O">>, 1)


\* C33: Join behaves identically to Add: replacing every Join token by Add in
\* the token sequence of any accepted formula does not change the result of
\* evaluate(toRPN(tokens)).
C33_JoinIsAdd ==
    LET own == results["evaluate(toRPN(tokenize(f)))"]
        replaced == results["Add for Join"]
    IN  (own.phase = "done" /\ replaced.phase = "done" /\ own.value.status = "ok")
        => SameOutcome(own.value, replaced.value)


\* the type of the token at position i of the sequence; "" outside it
TypeAt(q, i) == IF i \in DOMAIN q THEN q[i].type ELSE ""

\* C34: in every token sequence that tokenize returns, each Subscript token
\* is immediately followed by a Number token, each Coefficient token is
\* immediately preceded by a Number token, each Add token is immediately
\* followed by an Atom or a GroupLeft token, and each Number token is adjacent
\* to its own Subscript (before it) or Coefficient (after it).
C34_OperatorsAdjacent ==
    pc = "tokenized" =>
        \A i \in DOMAIN tokens :
            /\ tokens[i].type = "Subscript" => TypeAt(tokens, i + 1) = "Number"
            /\ tokens[i].type = "Coefficient" => TypeAt(tokens, i - 1) = "Number"
            /\ tokens[i].type = "Add"
                 => TypeAt(tokens, i + 1) \in {"Atom", "GroupLeft"}
            /\ tokens[i].type = "Number"
                 => \/ TypeAt(tokens, i - 1) = "Subscript"
                          /\ TypeAt(tokens, i + 1) # "Coefficient"
                    \/ TypeAt(tokens, i + 1) = "Coefficient"
                          /\ TypeAt(tokens, i - 1) # "Subscript"

\* tokenize("2H2H") has returned a Coefficient, a Subscript and an Add
C34_Witness ==
    /\ formula = <<"2", "H", "2", "H">>
    /\ pc = "tokenized"
    /\ tokens = <<NumberToken(2), Tok("Coefficient"), AtomToken(<<"H">>),
                  Tok("Subscript"), NumberToken(2), Tok("Add"),
                  AtomToken(<<"H">>)>>


\* C35: evaluate handles every token kind explicitly: a postfix sequence that
\* contains a GroupLeft or GroupRight token makes evaluate fail rather than
\* skip the parenthesis token and return a result.
C35_GroupTokenFails ==
    (given = "tokens" /\ pc = "returned")
        => \A i \in DOMAIN tokens : tokens[i].type \notin {"GroupLeft", "GroupRight"}


\* C36: adding and then subtracting the same operand restores a Molecule: for
\* every Molecule m without zero entries and every Molecule x with nonzero
\* frequencies of either sign, m.add(x).subtract(x) has the same atoms and
\* frequencies as m, and likewise m.subtract(x).add(x).
C36_Restored ==
    ( /\ last.op \in {"add.subtract", "subtract.add"}
      /\ last.arg.ref = Other
      /\ NoZero(heap[This]) /\ NoZero(heap[Other]) )
        => (~last.threw /\ heap[Result] = heap[This])

\* C37: the atom overload and the Molecule overload of add and subtract
\* agree: for every Molecule m, atom a and nonzero f, m.add(a, f) equals
\* m.add(M) and m.subtract(a, f) equals m.subtract(M), M being the Molecule
\* that holds only a at frequency f.
C37_OverloadsAgree ==
    ( /\ last.op \in {"add", "subtract"}
      /\ last.arg.isString /\ last.arg.freq # 0 )
        => LET c == MoleculeCopy(heap[This])
               M == Mol1(last.arg.atom, last.arg.freq)
           IN  /\ ~last.threw
               /\ heap[Result] =
                    AddOrSubtractMolecule(c.m, last.op = "subtract", M).m


\* C38: constructing a Molecule from a single atom with frequency 0 (new
\* Molecule(a, 0) or Molecule.fromAtom(a, 0)) succeeds and yields an empty
\* Molecule, and constructing one by copying yields a Molecule with the
\* entries of the Molecule copied.
C38_ConstructedFromZero ==
    /\ (last.op = "newAtom" /\ last.arg.freq = 0)
         => (~last.threw /\ heap[last.dest] = EmptyMolecule)
    /\ (last.op = "newCopy")
         => (~last.threw /\ heap[last.dest] = heap[last.arg.ref])

====
